---- MODULE Spec2Model ----
(***************************************************************************)
(* Finance_GraphRAG: the knowledge-graph consistency and grounded          *)
(* retrieval engine.                                                       *)
(*                                                                         *)
(*   EntityResolver        src/src/engine/integrator.py                    *)
(*   DataIntegrator        src/src/engine/integrator.py                    *)
(*   SupplyChainReasoner   src/src/engine/supply_chain_reasoner.py         *)
(*   MultiHopReasoner      src/src/engine/reasoner.py                      *)
(*   CitationValidator     src/src/citation_validator.py                   *)
(*                                                                         *)
(* Python str values are TLA+ strings; a character is a string of length   *)
(* one.  The graph store (Neo4j) is modelled by the meaning of the Cypher  *)
(* statements the code sends to it.                                        *)
(***************************************************************************)
EXTENDS Integers, Sequences, FiniteSets, TLC

VARIABLES
    ALIASES,     \* EntityResolver.ALIASES: the class-level dict, in insertion order
    rname,       \* argument of the last EntityResolver call
    rout,        \* value returned by the last EntityResolver.resolve
    rpc,         \* "idle" | "resolved" | "added"
    nAdded       \* number of add_alias calls made so far

VARIABLES
    response,    \* the answer text handed to CitationValidator.validate_response
    sources,     \* the list of source dicts handed to CitationValidator.__init__
    vresult,     \* the dict validate_response returned
    vpc          \* "new" | "validated"

VARIABLES
    gnodes,      \* the nodes of the graph store, in creation order: labels and properties
    gedges,      \* the relationships of the graph store, in creation order
    gclock,      \* number of statements the store has run; datetime() reads it
    stats,       \* DataIntegrator.stats
    nruns,       \* number of ingestPdfGraph calls made so far
    icall,       \* arguments of the last ingestPdfGraph call
    iprev,       \* the graph as it was before the last ingestPdfGraph call
    irepeat,     \* the last call had the arguments of the call before it
    ires,        \* what the last ingestPdfGraph call returned, or that it raised
    ibase,       \* the graph before a call that a store error ended, and that call; <<>> if none
    workers      \* the ingestPdfGraph calls running side by side; <<>> if none

VARIABLES
    pcall,       \* the last reasoner call: its name, arguments and what the model answered
    pres,        \* what that call returned, or that it raised
    ppc,         \* "idle" | "done"
    pprev        \* the call before the last and what it returned, <<>> if none

VARIABLES
    reasoning_result,  \* the dict handed to QueryProcessor._calculateConfidence
    score,             \* the float it returned; <<>> before
    spc                \* "new" | "scored"

VARIABLES
    resolvers,   \* the entity_resolver.EntityResolver instances, by number: their
                 \* similarity_threshold, entity_aliases and normalized_cache
    fed,         \* the raw names handed to normalize_entity so far, in order
    returned     \* what each instance returned for each of them

VARIABLES
    evidence,    \* the list CitationValidator.build_evidence returned; <<>> before
    bpc          \* "new" | "built"

VARIABLES
    rwho,        \* the DataIntegrator whose self.resolver made the last call; 0 before
    rlog         \* per DataIntegrator, the add_alias calls made through its resolver

VARIABLES
    resanitized  \* the stored labels and relationship types, each paired with what
                 \* sanitizeLabel / sanitizeRelType makes of it; <<>> before

VARIABLES
    ollama,      \* the local model server: whether it answers, and the models it lists
    pdfcall      \* the last operation that ingested PDF-derived data: its name, whether
                 \* it ran check_local_model_before_processing, whether that ended the
                 \* process, and the graph before it; <<>> if none

resolverVars == <<ALIASES, rname, rout, rpc, nAdded>>
validatorVars == <<response, sources, vresult, vpc>>
ingestVars == <<gnodes, gedges, gclock, stats, nruns, icall, iprev, irepeat, ires, ibase,
                workers>>

pathVars == <<pcall, pres, ppc, pprev>>

scoreVars == <<reasoning_result, score, spc>>

normVars == <<resolvers, fed, returned>>

\* the components added to the five above
evidenceVars == <<evidence, bpc>>

sharedVars == <<rwho, rlog>>

sanitizeVars == <<resanitized>>

pdfVars == <<ollama, pdfcall>>

moreVars == <<evidenceVars, sharedVars, sanitizeVars, pdfVars>>

extraVars == <<normVars, moreVars>>

vars == <<resolverVars, validatorVars, ingestVars, pathVars, scoreVars, extraVars>>

(***************************************************************************)
(* Python str operations                                                   *)
(***************************************************************************)
Char(s, i) == SubSeq(s, i, i)

UpperChars == "ABCDEFGHIJKLMNOPQRSTUVWXYZ"
LowerChars == "abcdefghijklmnopqrstuvwxyz"
DigitChars == "0123456789"

CharsOf(s) == {Char(s, i) : i \in 1..Len(s)}

UpperSet == CharsOf(UpperChars)
LowerSet == CharsOf(LowerChars)
DigitSet == CharsOf(DigitChars)

\* str.lower() on one character
LowerTable == [c \in UpperSet |->
                 Char(LowerChars, CHOOSE i \in 1..Len(UpperChars) : Char(UpperChars, i) = c)]

LowerChar(c) == IF c \in UpperSet THEN LowerTable[c] ELSE c

\* the concatenation of the strings piece[lo], ..., piece[hi]
RECURSIVE Join(_, _, _)
Join(piece, lo, hi) ==
    IF lo > hi THEN ""
    ELSE IF lo = hi THEN piece[lo]
    ELSE LET mid == (lo + hi) \div 2
         IN  Join(piece, lo, mid) \o Join(piece, mid + 1, hi)

\* the string made of what each character of s is replaced by
Rewrite(s, piece) == Join(piece, 1, Len(s))

Suffix(s, i) == SubSeq(s, i, Len(s))

\* str.lower()
Lower(s) == Rewrite(s, [i \in 1..Len(s) |-> LowerChar(Char(s, i))])

\* the characters str.strip() and the regex class \s remove
WhiteSet == {" ", "\n", "\t", "\r"}

RECURSIVE LStrip(_)
LStrip(s) == IF s # "" /\ Head(s) \in WhiteSet THEN LStrip(Tail(s)) ELSE s

RECURSIVE RStrip(_)
RStrip(s) ==
    IF s # "" /\ Char(s, Len(s)) \in WhiteSet
    THEN RStrip(SubSeq(s, 1, Len(s) - 1))
    ELSE s

Strip(s) == RStrip(LStrip(s))

\* a in b  (Python substring test; the empty string is in every string)
Contains(a, b) ==
    \E i \in 1..(Len(b) - Len(a) + 1) : SubSeq(b, i, i + Len(a) - 1) = a

StartsWith(s, p) == Len(s) >= Len(p) /\ SubSeq(s, 1, Len(p)) = p

\* x in list
InList(x, list) == \E i \in DOMAIN list : list[i] = x

(***************************************************************************)
(* EntityResolver                                                          *)
(***************************************************************************)
\* the class attribute ALIASES as written in the source: <<canonical, aliases>>
InitialAliases == <<
    <<"Nvidia", <<"NVDA", "nvidia", "NVIDIA", "Nvidia Corporation", "NVIDIA Corp">> >>,
    <<"TSMC", <<"TSM", "tsmc", "Taiwan Semiconductor", "Taiwan Semiconductor Manufacturing">> >>,
    <<"Intel", <<"INTC", "intel", "Intel Corporation", "Intel Corp">> >>,
    <<"AMD", <<"amd", "Advanced Micro Devices", "AMD Inc">> >>,
    <<"Apple", <<"AAPL", "apple", "Apple Inc", "Apple Inc.">> >>,
    <<"Microsoft", <<"MSFT", "microsoft", "Microsoft Corporation", "Microsoft Corp">> >>,
    <<"ASML", <<"ASML", "asml", "ASML Holding">> >>,
    <<"SK Hynix", <<"000660.KS", "SK hynix", "SK Hynix Inc">> >>,
    <<"Samsung Electronics", <<"005930.KS", "Samsung", "Samsung Elec">> >>,
    <<"Micron", <<"MU", "micron", "Micron Technology">> >>,
    <<"Applied Materials", <<"AMAT", "Applied Materials Inc">> >>,
    <<"AWS", <<"AMZN", "Amazon Web Services", "Amazon AWS">> >>,
    <<"Microsoft Azure", <<"MSFT", "Azure", "MS Azure">> >>,
    <<"Google Cloud", <<"GOOGL", "GCP", "Google Cloud Platform">> >>
>>

\* first loop of resolve: exact membership, in dict order
ExactHits(table, clean) ==
    {i \in DOMAIN table : InList(clean, table[i][2]) \/ clean = table[i][1]}

\* second loop of resolve: case-insensitive containment in either direction
FuzzyHit(aliasList, lowered) ==
    \E j \in DOMAIN aliasList :
        LET al == Lower(aliasList[j])
        IN  Contains(al, lowered) \/ Contains(lowered, al)

FuzzyHits(table, lowered) ==
    {i \in DOMAIN table : FuzzyHit(table[i][2], lowered)}

MinOf(S) == CHOOSE m \in S : \A x \in S : m <= x

\* EntityResolver.resolve(entity_name) against the dict `table`
resolve(table, entity_name) ==
    LET entity_clean == Strip(entity_name)
        exact == ExactHits(table, entity_clean)
    IN  IF exact # {}
        THEN table[MinOf(exact)][1]
        ELSE LET fuzzy == FuzzyHits(table, Lower(entity_clean))
             IN  IF fuzzy # {} THEN table[MinOf(fuzzy)][1] ELSE entity_clean

\* EntityResolver.add_alias(canonical, aliases)
add_alias_table(table, canonical, aliases) ==
    LET present == {i \in DOMAIN table : table[i][1] = canonical}
        table1  == IF present = {} THEN Append(table, <<canonical, <<>> >>) ELSE table
        at      == CHOOSE i \in DOMAIN table1 : table1[i][1] = canonical
    IN  [table1 EXCEPT ![at] = <<canonical, table1[at][2] \o aliases>>]

\* every canonical name and alias of a table
TableNames(table) ==
    {table[i][1] : i \in DOMAIN table}
        \cup UNION {{table[i][2][j] : j \in DOMAIN table[i][2]} : i \in DOMAIN table}

(***************************************************************************)
(* Resolver specification: callers resolve names and register aliases      *)
(***************************************************************************)
MaxAddAlias == 1

\* names that are in no table
OtherNames == {"", "  ", " NVDA ", "Taiwan", "Acme", "Acme Corp", "Taiwan Earthquake Risk"}

AddCanonicals == {"Nvidia", "Acme", "NVDA"}
AddAliasLists == {<<"NVDA">>, <<"Acme Corp">>, <<"ACM", "acme">>, <<"NVDA Inc">>}

ResolverNames(table) == TableNames(table) \cup OtherNames

\* the resolver before any call
ResolverIdle ==
    /\ ALIASES = InitialAliases
    /\ rname = ""
    /\ rout = ""
    /\ rpc = "idle"
    /\ nAdded = 0

\* no entity_resolver.EntityResolver constructed
NormIdle ==
    /\ resolvers = <<>>
    /\ fed = <<>>
    /\ returned = <<>>

\* build_evidence not called
EvidenceIdle ==
    /\ evidence = <<>>
    /\ bpc = "new"

\* no DataIntegrator constructed
SharedIdle ==
    /\ rwho = 0
    /\ rlog = <<>>

\* no stored label sanitized again
SanitizeIdle == resanitized = <<>>

\* no PDF-derived data handled
PdfIdle ==
    /\ ollama = <<>>
    /\ pdfcall = <<>>

MoreIdle == EvidenceIdle /\ SharedIdle /\ SanitizeIdle /\ PdfIdle

ExtraIdle == NormIdle /\ MoreIdle

\* no validator constructed
ValidatorIdle ==
    /\ response = ""
    /\ sources = <<>>
    /\ vresult = <<>>
    /\ vpc = "new"

\* an empty graph store and a DataIntegrator that has ingested nothing
IngestIdle ==
    /\ gnodes = <<>>
    /\ gedges = <<>>
    /\ gclock = 0
    /\ stats = [entities_merged |-> 0, relationships_created |-> 0]
    /\ nruns = 0
    /\ icall = <<>>
    /\ iprev = [nodes |-> <<>>, edges |-> <<>>]
    /\ irepeat = FALSE
    /\ ires = [raised |-> FALSE, entitiesMerged |-> 0, relationshipsCreated |-> 0]
    /\ ibase = <<>>
    /\ workers = <<>>

\* no reasoner call made
PathIdle ==
    /\ pcall = <<>>
    /\ pres = <<>>
    /\ ppc = "idle"
    /\ pprev = <<>>

\* no result scored
ScoreIdle ==
    /\ reasoning_result = <<>>
    /\ score = <<>>
    /\ spc = "new"

ResolverInit ==
    /\ ScoreIdle
    /\ ResolverIdle
    /\ ValidatorIdle
    /\ IngestIdle
    /\ PathIdle
    /\ ExtraIdle

Resolve(name) ==
    /\ rname' = name
    /\ rout' = resolve(ALIASES, name)
    /\ rpc' = "resolved"
    /\ UNCHANGED <<ALIASES, nAdded>>
    /\ UNCHANGED <<validatorVars, ingestVars, pathVars, scoreVars, extraVars>>

AddAlias(canonical, aliases) ==
    /\ nAdded < MaxAddAlias
    /\ ALIASES' = add_alias_table(ALIASES, canonical, aliases)
    /\ rname' = canonical
    /\ rout' = ""
    /\ rpc' = "added"
    /\ nAdded' = nAdded + 1
    /\ UNCHANGED <<validatorVars, ingestVars, pathVars, scoreVars, extraVars>>

ResolverNext ==
    \/ \E name \in ResolverNames(ALIASES) : Resolve(name)
    \/ \E c \in AddCanonicals, l \in AddAliasLists : AddAlias(c, l)

ResolverSpec == ResolverInit /\ [][ResolverNext]_vars

\* C2: every alias listed under a canonical name, and the canonical name
\* itself, resolves to that canonical name.
C2_AliasSymmetry ==
    rpc = "resolved" =>
        \A i \in DOMAIN ALIASES :
            (InList(rname, ALIASES[i][2]) \/ rname = ALIASES[i][1])
                => rout = ALIASES[i][1]

(***************************************************************************)
(* DataIntegrator: the graph store and ingestPdfGraph                      *)
(*                                                                         *)
(* A Python value is a record [kind, text]: kind is its type ("str", "int",*)
(* "float", "bool", "none", "list") and text is what str() gives for it.   *)
(* A key that a dict does not have is a value of kind "missing".           *)
(***************************************************************************)
Val(kind, text) == [kind |-> kind, text |-> text]
Str(text) == Val("str", text)
None == Val("none", "None")
Missing == Val("missing", "")

\* dict.get(key, default) on a field of an item
GetOr(v, default) == IF v.kind = "missing" THEN default ELSE v

\* Python truth of a value
Truthy(v) ==
    CASE v.kind \in {"none", "missing"} -> FALSE
      [] v.kind \in {"str", "list"}     -> v.text \notin {"", "[]"}
      [] v.kind \in {"int", "float"}    -> v.text \notin {"0", "0.0"}
      [] v.kind = "bool"                -> v.text = "True"

\* str.upper()
UpperTable == [c \in LowerSet |->
                 Char(UpperChars, CHOOSE i \in 1..Len(LowerChars) : Char(LowerChars, i) = c)]
UpperChar(c) == IF c \in LowerSet THEN UpperTable[c] ELSE c
Upper(s) == Rewrite(s, [i \in 1..Len(s) |-> UpperChar(Char(s, i))])

\* re.sub(r'[^A-Za-z0-9_]', '', s)
KeepWordChars(s) ==
    Rewrite(s, [i \in 1..Len(s) |->
                   IF Char(s, i) \in UpperSet \cup LowerSet \cup DigitSet \cup {"_"}
                   THEN Char(s, i) ELSE ""])

\* DataIntegrator.sanitizeLabel
sanitizeLabel(label) ==
    LET cleanLabel == KeepWordChars(label)
    IN  IF cleanLabel # "" THEN cleanLabel ELSE "Entity"

\* sanitizeRelType without the upper()
sanitizeRelType_NoUpper(relType) ==
    LET cleanRelType == KeepWordChars(relType)
    IN  IF cleanRelType # "" THEN cleanRelType ELSE "RELATED"

\* DataIntegrator.sanitizeRelType
sanitizeRelType(relType) ==
    LET cleanRelType == KeepWordChars(Upper(relType))
    IN  IF cleanRelType # "" THEN cleanRelType ELSE "RELATED"

typeMap ==
    [COMPANY |-> "Company", PERSON |-> "Person", PRODUCT |-> "Product",
     LOCATION |-> "Location", FINANCIAL_METRIC |-> "FinancialMetric",
     REGULATION |-> "Regulation", CATALYST |-> "Catalyst", RISK |-> "Risk",
     TECH |-> "Technology"]

\* DataIntegrator.normalizeEntityType
normalizeEntityType(entityType) ==
    LET key == Upper(entityType)
    IN  IF key \in DOMAIN typeMap THEN typeMap[key] ELSE "Entity"

\* DataIntegrator.filterProperties: primitives pass, anything else becomes str(value)
filterProperties(properties) ==
    [key \in DOMAIN properties |->
        IF properties[key].kind \in {"str", "int", "float", "bool"}
        THEN properties[key]
        ELSE Str(properties[key].text)]

\* x.get("properties", {}) if isinstance(x.get("properties"), dict) else {}
PropsOf(item) == IF item.properties.isdict THEN item.properties.items ELSE <<>>

\* the dict as a function from keys to values; <<>> is the empty dict
Dict(items) == [isdict |-> TRUE, items |-> items]
NotADict == [isdict |-> FALSE, items |-> <<>>]

\* Cypher "SET x += map": the keys of map are written over those of old
SetAll(old, map) ==
    [k \in DOMAIN old \cup DOMAIN map |-> IF k \in DOMAIN map THEN map[k] ELSE old[k]]

\* datetime() of the statement that runs at tick t
DateTime(t) == Val("datetime", ToString(t))

\* the nodes that the pattern (:label {name: $name}) matches; label "" is no label
MatchNodes(nodes, label, name) ==
    {i \in DOMAIN nodes :
        /\ label = "" \/ label \in nodes[i].labels
        /\ "name" \in DOMAIN nodes[i].props
        /\ nodes[i].props["name"] = Str(name)}

\* MERGE (n:label {name: $name}): the graph and the rows bound to n
MergeNode(nodes, label, name) ==
    LET hit == MatchNodes(nodes, label, name)
    IN  IF hit # {}
        THEN [nodes |-> nodes, rows |-> hit]
        ELSE [nodes |-> Append(nodes, [labels |-> IF label = "" THEN {} ELSE {label},
                                       props  |-> ("name" :> Str(name))]),
              rows  |-> {Len(nodes) + 1}]

\* the statement ingestPdfGraph runs for one entity
UpsertEntity(g, label, name, props, sourceLabel, sourceFile) ==
    LET m       == MergeNode(g.nodes, label, name)
        written == ("source" :> Str("pdf")) @@ ("source_label" :> Str(sourceLabel))
                       @@ ("source_file" :> Str(sourceFile))
                       @@ ("updated_at" :> DateTime(g.clock + 1))
    IN  [g EXCEPT
            !.nodes = [i \in DOMAIN m.nodes |->
                          IF i \in m.rows
                          THEN [m.nodes[i] EXCEPT !.props = SetAll(SetAll(@, props), written)]
                          ELSE m.nodes[i]],
            !.clock = @ + 1]

\* the pairs of a set of pairs of integers, in increasing order
RECURSIVE PairsInOrder(_)
PairsInOrder(P) ==
    IF P = {} THEN <<>>
    ELSE LET p == CHOOSE x \in P :
                      \A y \in P : x[1] < y[1] \/ (x[1] = y[1] /\ x[2] <= y[2])
         IN  <<p>> \o PairsInOrder(P \ {p})

\* the statement ingestPdfGraph runs for one relationship
UpsertRel(g, relType, source, target, props, sourceLabel, sourceFile) ==
    LET a       == MergeNode(g.nodes, "", source)
        b       == MergeNode(a.nodes, "", target)
        rows    == a.rows \X b.rows
        Has(p)  == \E e \in DOMAIN g.edges :
                       /\ g.edges[e].src = p[1]
                       /\ g.edges[e].dst = p[2]
                       /\ g.edges[e].type = relType
        fresh   == PairsInOrder({p \in rows : ~Has(p)})
        edges   == g.edges \o [n \in DOMAIN fresh |->
                                  [src |-> fresh[n][1], dst |-> fresh[n][2],
                                   type |-> relType, props |-> <<>>]]
        written == ("source" :> Str(sourceLabel)) @@ ("source_file" :> Str(sourceFile))
                       @@ ("updated_at" :> DateTime(g.clock + 1))
    IN  [g EXCEPT
            !.nodes = b.nodes,
            !.edges = [e \in DOMAIN edges |->
                          IF <<edges[e].src, edges[e].dst>> \in rows /\ edges[e].type = relType
                          THEN [edges[e] EXCEPT !.props = SetAll(SetAll(@, props), written)]
                          ELSE edges[e]],
            !.clock = @ + 1]

\* the names the modelled batches mention, resolved once against the table as
\* shipped; self.resolver.resolve gives the same for them while the table is
\* the shipped one
BatchNames ==
    {"NVDA", "TSM", "TSMC", "Acme Corp", "Foundry One", "Nvidia", "Taiwan Earthquake Risk",
     "  "}
ShippedResolution == [name \in BatchNames |-> resolve(InitialAliases, name)]

resolver_resolve(table, name) ==
    IF name \in BatchNames /\ table = InitialAliases
    THEN ShippedResolution[name]
    ELSE resolve(table, name)

\* self.resolver.resolve(name) raises AttributeError when name is no str
ResolveRaises(name) == name.kind # "str"

\* one pass of the loop over entities; run.raised ends the call
IngestEntity(run, entity, sourceFile, sourceLabel) ==
    LET name == GetOr(entity.name, None)
    IN  IF run.raised \/ ~Truthy(name) THEN run
        ELSE LET entityType == normalizeEntityType(GetOr(entity.type, Str("Entity")).text)
                 label      == sanitizeLabel(entityType)
                 properties == filterProperties(PropsOf(entity))
             IN  IF ResolveRaises(name) THEN [run EXCEPT !.raised = TRUE]
                 ELSE [run EXCEPT
                          !.g = UpsertEntity(@, label, resolver_resolve(ALIASES, name.text),
                                             properties, sourceLabel, sourceFile),
                          !.entitiesMerged = @ + 1]

\* one pass of the loop over relationships
IngestRel(run, rel, sourceFile, sourceLabel) ==
    LET source == GetOr(rel.source, None)
        target == GetOr(rel.target, None)
    IN  IF run.raised \/ ~Truthy(source) \/ ~Truthy(target) THEN run
        ELSE LET relType  == sanitizeRelType(GetOr(rel.type, Str("RELATED")).text)
                 relProps == filterProperties(PropsOf(rel))
             IN  IF ResolveRaises(source) \/ ResolveRaises(target)
                 THEN [run EXCEPT !.raised = TRUE]
                 ELSE [run EXCEPT
                          !.g = UpsertRel(@, relType, resolver_resolve(ALIASES, source.text),
                                          resolver_resolve(ALIASES, target.text),
                                          relProps, sourceLabel, sourceFile),
                          !.relationshipsCreated = @ + 1]

RECURSIVE IngestEntities(_, _, _, _)
IngestEntities(run, entities, sourceFile, sourceLabel) ==
    IF entities = <<>> THEN run
    ELSE IngestEntities(IngestEntity(run, Head(entities), sourceFile, sourceLabel),
                        Tail(entities), sourceFile, sourceLabel)

RECURSIVE IngestRels(_, _, _, _)
IngestRels(run, relationships, sourceFile, sourceLabel) ==
    IF relationships = <<>> THEN run
    ELSE IngestRels(IngestRel(run, Head(relationships), sourceFile, sourceLabel),
                    Tail(relationships), sourceFile, sourceLabel)

\* DataIntegrator.ingestPdfGraph on the graph g: every statement it sends is
\* committed on its own, so what was written before an exception stays
ingestPdfGraph(g, graphData, sourceFile, sourceLabel) ==
    LET start == [g |-> g, raised |-> FALSE, entitiesMerged |-> 0,
                  relationshipsCreated |-> 0]
    IN  IngestRels(IngestEntities(start, graphData.entities, sourceFile, sourceLabel),
                   graphData.relationships, sourceFile, sourceLabel)

(***************************************************************************)
(* Ingestion: any sequence of ingestPdfGraph calls on one store            *)
(***************************************************************************)
\* the members of pool at the indices S, in pool order
RECURSIVE Pick(_, _)
Pick(pool, S) ==
    IF S = {} THEN <<>>
    ELSE LET i == MinOf(S) IN <<pool[i]>> \o Pick(pool, S \ {i})

\* the subsets of S of at most n elements
SmallSubsets(S, n) == {T \in SUBSET S : Cardinality(T) <= n}

MaxEntities == 1
MaxRels == 1
MaxRuns == 2

EntityPool == <<
    [name |-> Str("NVDA"), type |-> Str("Company"),
     properties |-> Dict("sector" :> Str("Semiconductors"))],
    [name |-> Str("Acme Corp"), type |-> Str("company"),
     properties |-> Dict("name" :> Str("Acme Holdings"))],
    [name |-> Str("TSM"), type |-> Str("Widget"),
     properties |-> Dict("notes" :> None)],
    [name |-> Missing, type |-> Str("Risk"), properties |-> NotADict],
    [name |-> Val("int", "42"), type |-> Missing, properties |-> Dict(<<>>)],
    [name |-> Str("  "), type |-> Str("Company"), properties |-> Dict(<<>>)],
    [name |-> Str("Nvidia"), type |-> Str("Company"),
     properties |-> Dict("sector" :> None)]
>>

RelPool == <<
    [source |-> Str("NVDA"), target |-> Str("TSM"), type |-> Str("depends on"),
     properties |-> Dict("criticality" :> Val("float", "0.9"))],
    [source |-> Str("Acme Corp"), target |-> Str("Acme Corp"), type |-> Missing,
     properties |-> NotADict],
    [source |-> Str("Foundry One"), target |-> None, type |-> Str("SUPPLIES"),
     properties |-> Dict(<<>>)],
    [source |-> Val("list", "['NVDA']"), target |-> Str("TSMC"), type |-> Str("supplies"),
     properties |-> Dict(<<>>)],
    [source |-> Str("Nvidia"), target |-> Str("TSMC"), type |-> Str("Depends-On"),
     properties |-> Dict("criticality" :> None)]
>>

\* <<sourceFile, sourceLabel>>
Provenances == {<<"q3.pdf", "q3">>, <<"q4.pdf", "q4">>}

Batches ==
    {[entities |-> Pick(EntityPool, E), relationships |-> Pick(RelPool, R)] :
        E \in SmallSubsets(DOMAIN EntityPool, MaxEntities),
        R \in SmallSubsets(DOMAIN RelPool, MaxRels)}

Graph == [nodes |-> gnodes, edges |-> gedges, clock |-> gclock]

IngestInit ==
    /\ ScoreIdle
    /\ ResolverIdle
    /\ ValidatorIdle
    /\ IngestIdle
    /\ PathIdle
    /\ ExtraIdle

IngestPdfGraphCall(graphData, sourceFile, sourceLabel) ==
    /\ nruns < MaxRuns
    /\ LET run  == ingestPdfGraph(Graph, graphData, sourceFile, sourceLabel)
           call == [graphData |-> graphData, sourceFile |-> sourceFile,
                    sourceLabel |-> sourceLabel]
       IN  /\ gnodes' = run.g.nodes
           /\ gedges' = run.g.edges
           /\ gclock' = run.g.clock
           /\ stats' = IF run.raised THEN stats
                       ELSE [entities_merged |-> stats.entities_merged + run.entitiesMerged,
                             relationships_created |->
                                 stats.relationships_created + run.relationshipsCreated]
           /\ ires' = [raised |-> run.raised, entitiesMerged |-> run.entitiesMerged,
                       relationshipsCreated |-> run.relationshipsCreated]
           /\ irepeat' = (nruns > 0 /\ ~ires.raised /\ icall = call)
           /\ icall' = call
           /\ ibase' = IF ibase # <<>> /\ ibase.state = "failed" /\ ibase.call = call
                       THEN [ibase EXCEPT !.state = "retried"]
                       ELSE <<>>
    /\ iprev' = [nodes |-> gnodes, edges |-> gedges]
    /\ nruns' = nruns + 1
    /\ UNCHANGED workers

IngestPdfGraph(graphData, sourceFile, sourceLabel) ==
    /\ IngestPdfGraphCall(graphData, sourceFile, sourceLabel)
    /\ UNCHANGED <<resolverVars, validatorVars, pathVars, scoreVars, extraVars>>

IngestNext ==
    \E graphData \in Batches, p \in Provenances : IngestPdfGraph(graphData, p[1], p[2])

IngestSpec == IngestInit /\ [][IngestNext]_vars

\* DataIntegrator.create_relationship: both ends are matched by name and the
\* relationship is merged on its type and on the whole of the property map
create_relationship(g, from_entity, to_entity, rel_type, properties) ==
    LET from_canonical == resolver_resolve(ALIASES, from_entity)
        to_canonical   == resolver_resolve(ALIASES, to_entity)
        rows    == MatchNodes(g.nodes, "", from_canonical)
                       \X MatchNodes(g.nodes, "", to_canonical)
        Has(p)  == \E e \in DOMAIN g.edges :
                       /\ g.edges[e].src = p[1]
                       /\ g.edges[e].dst = p[2]
                       /\ g.edges[e].type = rel_type
                       /\ \A k \in DOMAIN properties :
                              /\ k \in DOMAIN g.edges[e].props
                              /\ g.edges[e].props[k] = properties[k]
        fresh   == PairsInOrder({p \in rows : ~Has(p)})
    IN  [g EXCEPT
            !.edges = @ \o [n \in DOMAIN fresh |->
                               [src |-> fresh[n][1], dst |-> fresh[n][2],
                                type |-> rel_type, props |-> properties]],
            !.clock = @ + 1]

CreateRelationship(from_entity, to_entity, rel_type, properties) ==
    /\ nruns < MaxRuns
    /\ LET g == create_relationship(Graph, from_entity, to_entity, rel_type, properties)
       IN  /\ gedges' = g.edges
           /\ gclock' = g.clock
    /\ stats' = [stats EXCEPT !.relationships_created = @ + 1]
    /\ iprev' = [nodes |-> gnodes, edges |-> gedges]
    /\ irepeat' = FALSE
    /\ nruns' = nruns + 1
    /\ UNCHANGED <<gnodes, icall, ires, ibase, workers>>
    /\ UNCHANGED <<resolverVars, validatorVars, pathVars, scoreVars, extraVars>>

RelNext ==
    \/ IngestNext
    \/ \E from_entity \in {"NVDA", "Acme Corp"}, to_entity \in {"TSM", "Acme Corp"},
          rel_type \in {"DEPENDSON", "RELATED"},
          properties \in {<<>>, "criticality" :> Val("float", "0.9"),
                          "criticality" :> Val("float", "0.5")} :
           CreateRelationship(from_entity, to_entity, rel_type, properties)

RelSpec == IngestInit /\ [][RelNext]_vars

\* the first n items of a batch in the order ingestPdfGraph takes them:
\* the entities, then the relationships
BatchPrefix(graphData, n) ==
    LET entities      == graphData.entities
        relationships == graphData.relationships
    IN  [entities      |-> SubSeq(entities, 1, IF n < Len(entities) THEN n ELSE Len(entities)),
         relationships |-> SubSeq(relationships, 1,
                                  IF n > Len(entities) THEN n - Len(entities) ELSE 0)]

\* item n of the batch gets as far as session.run: it is not skipped and
\* resolve does not raise on it
SendsStatement(graphData, n) ==
    LET entities == graphData.entities
        rel      == graphData.relationships[n - Len(entities)]
    IN  IF n <= Len(entities)
        THEN LET name == GetOr(entities[n].name, None)
             IN  Truthy(name) /\ ~ResolveRaises(name)
        ELSE LET source == GetOr(rel.source, None)
                 target == GetOr(rel.target, None)
             IN  /\ Truthy(source) /\ Truthy(target)
                 /\ ~ResolveRaises(source) /\ ~ResolveRaises(target)

\* an ingestPdfGraph call in which session.run raises on item n: the statements
\* of the items before it are committed, the except block logs and re-raises
IngestPdfGraphStoreError(graphData, sourceFile, sourceLabel, n) ==
    /\ nruns < MaxRuns
    /\ n \in 1..(Len(graphData.entities) + Len(graphData.relationships))
    /\ SendsStatement(graphData, n)
    /\ LET run  == ingestPdfGraph(Graph, BatchPrefix(graphData, n - 1), sourceFile,
                                  sourceLabel)
           call == [graphData |-> graphData, sourceFile |-> sourceFile,
                    sourceLabel |-> sourceLabel]
       IN  /\ ~run.raised
           /\ gnodes' = run.g.nodes
           /\ gedges' = run.g.edges
           /\ gclock' = run.g.clock
           /\ ires' = [raised |-> TRUE, entitiesMerged |-> run.entitiesMerged,
                       relationshipsCreated |-> run.relationshipsCreated]
           /\ icall' = call
           /\ ibase' = IF ibase # <<>> /\ ibase.state = "failed" /\ ibase.call = call
                       THEN ibase
                       ELSE [nodes |-> gnodes, edges |-> gedges, call |-> call,
                             state |-> "failed"]
    /\ irepeat' = FALSE
    /\ iprev' = [nodes |-> gnodes, edges |-> gedges]
    /\ nruns' = nruns + 1
    /\ UNCHANGED <<stats, workers, resolverVars, validatorVars, pathVars, scoreVars, extraVars>>

RetryNext ==
    \/ IngestNext
    \/ \E graphData \in Batches, p \in Provenances, n \in 1..(MaxEntities + MaxRels) :
           IngestPdfGraphStoreError(graphData, p[1], p[2], n)

RetrySpec == IngestInit /\ [][RetryNext]_vars

\* the number of passes the two loops of ingestPdfGraph make over a batch
NumItems(graphData) == Len(graphData.entities) + Len(graphData.relationships)

\* pass n of ingestPdfGraph over a batch: the entities come before the
\* relationships
IngestItem(run, graphData, n, sourceFile, sourceLabel) ==
    IF n <= Len(graphData.entities)
    THEN IngestEntity(run, graphData.entities[n], sourceFile, sourceLabel)
    ELSE IngestRel(run, graphData.relationships[n - Len(graphData.entities)],
                   sourceFile, sourceLabel)

\* two ingestPdfGraph calls are started on the empty store, one per batch
StartBatches(first, second) ==
    /\ nruns = 0
    /\ workers = <<>>
    /\ workers' = [w \in 1..2 |->
                      [graphData |-> IF w = 1 THEN first ELSE second,
                       sourceFile |-> IF w = 1 THEN "q3.pdf" ELSE "q4.pdf",
                       sourceLabel |-> IF w = 1 THEN "q3" ELSE "q4",
                       pos |-> 0, raised |-> FALSE,
                       entitiesMerged |-> 0, relationshipsCreated |-> 0]]
    /\ nruns' = 2
    /\ UNCHANGED <<gnodes, gedges, gclock, stats, icall, iprev, irepeat, ires, ibase>>
    /\ UNCHANGED <<resolverVars, validatorVars, pathVars, scoreVars, extraVars>>

\* the call w makes its next pass: one item, at most one statement, which the
\* store runs and commits as a whole; the call that has made its last pass
\* adds its counts to self.stats
WorkerStep(w) ==
    /\ workers # <<>>
    /\ ~workers[w].raised
    /\ workers[w].pos < NumItems(workers[w].graphData)
    /\ LET me  == workers[w]
           run == IngestItem([g |-> Graph, raised |-> FALSE,
                              entitiesMerged |-> me.entitiesMerged,
                              relationshipsCreated |-> me.relationshipsCreated],
                             me.graphData, me.pos + 1, me.sourceFile, me.sourceLabel)
       IN  /\ gnodes' = run.g.nodes
           /\ gedges' = run.g.edges
           /\ gclock' = run.g.clock
           /\ workers' = [workers EXCEPT ![w] =
                             [me EXCEPT !.pos = @ + 1, !.raised = run.raised,
                                        !.entitiesMerged = run.entitiesMerged,
                                        !.relationshipsCreated = run.relationshipsCreated]]
           /\ stats' = IF ~run.raised /\ me.pos + 1 = NumItems(me.graphData)
                       THEN [entities_merged |-> stats.entities_merged + run.entitiesMerged,
                             relationships_created |->
                                 stats.relationships_created + run.relationshipsCreated]
                       ELSE stats
    /\ UNCHANGED <<nruns, icall, iprev, irepeat, ires, ibase>>
    /\ UNCHANGED <<resolverVars, validatorVars, pathVars, scoreVars, extraVars>>

ConcNext ==
    \/ \E first \in Batches, second \in Batches : StartBatches(first, second)
    \/ \E w \in 1..2 : WorkerStep(w)

ConcSpec == IngestInit /\ [][ConcNext]_vars

\* a dict without its updated_at entry
NoUpdatedAt(props) == [k \in DOMAIN props \ {"updated_at"} |-> props[k]]

\* nodes and relationships with their properties, updated_at left out
Timeless(items) == [i \in DOMAIN items |-> [items[i] EXCEPT !.props = NoUpdatedAt(@)]]

\* C1: running ingestPdfGraph a second time on the same batch and provenance
\* leaves the nodes, the relationships and their property values (updated_at
\* aside) as the first run left them: no additional node, no additional edge.
C1_SecondRunChangesNothing ==
    irepeat =>
        /\ Timeless(gnodes) = Timeless(iprev.nodes)
        /\ Timeless(gedges) = Timeless(iprev.edges)

(***************************************************************************)
(* SupplyChainReasoner and MultiHopReasoner: path discovery                *)
(*                                                                         *)
(* A Cypher variable-length pattern -[*1..n]-> binds every walk of 1..n    *)
(* relationships that uses no relationship twice; a node may occur in it   *)
(* any number of times.  A walk is the sequence of its relationships'      *)
(* positions in gedges.                                                    *)
(***************************************************************************)
RECURSIVE Walks(_, _)
Walks(edges, n) ==
    IF n <= 0 THEN {}
    ELSE IF n = 1 THEN {<<e>> : e \in DOMAIN edges}
    ELSE LET shorter == Walks(edges, n - 1)
             longest == {w \in shorter : Len(w) = n - 1}
             steps   == {p \in longest \X DOMAIN edges :
                            /\ edges[p[2]].src = edges[p[1][Len(p[1])]].dst
                            /\ \A i \in DOMAIN p[1] : p[1][i] # p[2]}
         IN  shorter \cup {Append(p[1], p[2]) : p \in steps}

\* nodes(path), as positions in gnodes
WalkNodes(edges, w) == <<edges[w[1]].src>> \o [i \in DOMAIN w |-> edges[w[i]].dst]

\* n.name = name
NameIs(node, name) == "name" \in DOMAIN node.props /\ node.props["name"] = Str(name)

\* the relationship types the query of find_supply_chain_paths admits
AllowedTypes ==
    {"DISRUPTS", "BLOCKS", "DEPENDS_ON", "DEPENDS_ON_COMPANY", "REQUIRES_PROCESS",
     "PRODUCES", "REQUIRES_COMPONENT"}

\* LIMIT 20
PathLimit == 20

\* "'" + "', '".join(affected_companies) + "'": an empty list asks for the name ''
CompaniesFilter(affected_companies) ==
    IF affected_companies = <<>> THEN {""}
    ELSE {affected_companies[i] : i \in DOMAIN affected_companies}

\* labels(n)[0]; null for a node without label
FirstLabel(node) == IF node.labels = {} THEN "null" ELSE CHOOSE l \in node.labels : TRUE

\* one returned record: node_list, rel_list and hops (ids: which nodes they are)
PathRecord(g, w) ==
    LET ids == WalkNodes(g.edges, w)
    IN  [ids |-> ids,
         nodes |-> [i \in DOMAIN ids |->
                       [name |-> IF "name" \in DOMAIN g.nodes[ids[i]].props
                                 THEN g.nodes[ids[i]].props["name"] ELSE None,
                        type |-> FirstLabel(g.nodes[ids[i]]),
                        properties |-> g.nodes[ids[i]].props]],
         relationships |-> [i \in DOMAIN w |->
                               [type |-> g.edges[w[i]].type,
                                properties |-> g.edges[w[i]].props]],
         hops |-> Len(w)]

\* the orders ORDER BY hops ASC may give a set of walks: ties in any order
RECURSIVE ByHops(_)
ByHops(W) ==
    IF W = {} THEN {<<>>}
    ELSE UNION {{<<w>> \o rest : rest \in ByHops(W \ {w})} :
                   w \in {x \in W : \A y \in W : Len(x) <= Len(y)}}

FirstN(q, n) == SubSeq(q, 1, IF Len(q) < n THEN Len(q) ELSE n)

\* the walks the MATCH ... WHERE of find_supply_chain_paths binds, with every
\* relationship type admitted
MatchedWalks_AnyType(g, trigger_entity, affected_companies, max_hops) ==
    {w \in Walks(g.edges, max_hops) :
        LET ids == WalkNodes(g.edges, w)
        IN  /\ NameIs(g.nodes[ids[1]], trigger_entity)
            /\ "Company" \in g.nodes[ids[Len(ids)]].labels
            /\ \E name \in CompaniesFilter(affected_companies) :
                   NameIs(g.nodes[ids[Len(ids)]], name)}

\* the walks the MATCH ... WHERE of find_supply_chain_paths binds
MatchedWalks(g, trigger_entity, affected_companies, max_hops) ==
    {w \in Walks(g.edges, max_hops) :
        LET ids == WalkNodes(g.edges, w)
        IN  /\ NameIs(g.nodes[ids[1]], trigger_entity)
            /\ "Company" \in g.nodes[ids[Len(ids)]].labels
            /\ \E name \in CompaniesFilter(affected_companies) :
                   NameIs(g.nodes[ids[Len(ids)]], name)
            /\ \A i \in DOMAIN w : g.edges[w[i]].type \in AllowedTypes}

\* a query that keeps the first record only
find_supply_chain_paths_FirstOnly(g, trigger_entity, affected_companies, max_hops) ==
    {[i \in DOMAIN FirstN(order, 1) |-> PathRecord(g, order[i])] :
        order \in ByHops(MatchedWalks(g, trigger_entity, affected_companies, max_hops))}

\* a query that orders by hops descending
find_supply_chain_paths_LongestFirst(g, trigger_entity, affected_companies, max_hops) ==
    {[i \in DOMAIN FirstN(order, PathLimit) |->
         PathRecord(g, order[Len(order) + 1 - i])] :
        order \in ByHops(MatchedWalks(g, trigger_entity, affected_companies, max_hops))}

\* SupplyChainReasoner.find_supply_chain_paths: the lists it may return
find_supply_chain_paths(g, trigger_entity, affected_companies, max_hops) ==
    {[i \in DOMAIN FirstN(order, PathLimit) |-> PathRecord(g, order[i])] :
        order \in ByHops(MatchedWalks(g, trigger_entity, affected_companies, max_hops))}

\* trigger_mapping of portfolio_risk_analysis, its ASCII keys
trigger_mapping ==
    ("taiwan earthquake" :> "Taiwan Earthquake Risk")
        @@ ("taiwan tension" :> "Taiwan Strait Tension")
        @@ ("us china trade war" :> "US-China Tech War")
        @@ ("euv ban" :> "ASML Export Ban")

\* what a reasoner call returns; confidence is <<numerator, denominator>>
Returned(op, paths, has_confidence, confidence, risk_level) ==
    [op |-> op, raised |-> FALSE, paths |-> paths, has_confidence |-> has_confidence,
     confidence |-> confidence, risk_level |-> risk_level]
Raised(op) ==
    [op |-> op, raised |-> TRUE, paths |-> <<>>, has_confidence |-> FALSE,
     confidence |-> <<0, 1>>, risk_level |-> ""]

\* SupplyChainReasoner.portfolio_risk_analysis after the paths are found;
\* risk_level is what analyze_impact_chain gave, "" when its dict has none
portfolio_result(paths, risk_level) ==
    IF paths = <<>>
    THEN Returned("portfolio_risk_analysis", <<>>, FALSE, <<0, 1>>, "Low")
    ELSE Returned("portfolio_risk_analysis", paths, FALSE, <<0, 1>>, risk_level)

\* the fallback of _generate_inference: 'confidence': 0.5
FallbackConfidence == <<1, 2>>

\* a reason that hands an empty path list to the inference step as well
reason_result_NoEmptyCheck(paths, inference) ==
    IF inference.kind = "malformed" THEN Raised("reason")
    ELSE Returned("reason", paths, TRUE,
                  IF inference.kind = "failed" THEN FallbackConfidence
                  ELSE inference.confidence, "")

\* MultiHopReasoner.reason after step 2: paths are what the query returned,
\* inference is how the model call of _generate_inference went
reason_result(paths, inference) ==
    IF paths = <<>> THEN Returned("reason", <<>>, TRUE, <<0, 1>>, "")
    ELSE IF inference.kind = "malformed" THEN Raised("reason")
    ELSE Returned("reason", paths, TRUE,
                  IF inference.kind = "failed" THEN FallbackConfidence
                  ELSE inference.confidence, "")

\* LIMIT 10 of the fallback query of generate_multihop_query
GenericLimit == 10

\* the rows the query that reason runs may return, as execute_multihop_query
\* reads them.  generated = "failed": the model call raised and the generic
\* query MATCH path = (n)-[*1..max_hops]->(m) RETURN path LIMIT 10 runs, whose
\* records have neither pathNodes nor pathRels nor hops.  generated = "query":
\* the model wrote the query of its prompt's first example, from the node
\* named question.start to the nodes named question.target.
QueryRows(g, question, max_hops, generated) ==
    IF generated = "failed"
    THEN LET n == Cardinality(Walks(g.edges, max_hops))
         IN  {[i \in 1..(IF n < GenericLimit THEN n ELSE GenericLimit) |->
                  [ids |-> <<>>, nodes |-> <<>>, relationships |-> <<>>, hops |-> 0]]}
    ELSE LET found == {w \in Walks(g.edges, max_hops) :
                          LET ids == WalkNodes(g.edges, w)
                          IN  /\ NameIs(g.nodes[ids[1]], question.start)
                              /\ NameIs(g.nodes[ids[Len(ids)]], question.target)}
         IN  {[i \in DOMAIN FirstN(order, GenericLimit) |-> PathRecord(g, order[i])] :
                 order \in ByHops(found)}

(***************************************************************************)
(* The reasoners over an ingested graph                                    *)
(***************************************************************************)
MaxPathRels == 3

PathEntityPool == <<
    [name |-> Str("Taiwan Earthquake Risk"), type |-> Str("Risk"),
     properties |-> Dict(<<>>)],
    [name |-> Str("TSMC"), type |-> Str("Company"), properties |-> Dict(<<>>)],
    [name |-> Str("NVDA"), type |-> Str("Company"), properties |-> Dict(<<>>)],
    [name |-> Str("Nvidia"), type |-> Str("Product"), properties |-> Dict(<<>>)]
>>

PathRelPool == <<
    [source |-> Str("Taiwan Earthquake Risk"), target |-> Str("TSMC"),
     type |-> Str("disrupts"), properties |-> Dict(<<>>)],
    [source |-> Str("TSMC"), target |-> Str("Nvidia"), type |-> Str("depends_on"),
     properties |-> Dict(<<>>)],
    [source |-> Str("TSMC"), target |-> Str("Nvidia"), type |-> Str("supplies to"),
     properties |-> Dict(<<>>)],
    [source |-> Str("Nvidia"), target |-> Str("TSMC"), type |-> Str("DEPENDS_ON"),
     properties |-> Dict(<<>>)],
    [source |-> Str("Taiwan Earthquake Risk"), target |-> Str("NVDA"),
     type |-> Str("blocks"), properties |-> Dict(<<>>)],
    [source |-> Str("Taiwan Earthquake Risk"), target |-> Str("TSMC"),
     type |-> Str("supplies"), properties |-> Dict(<<>>)]
>>

\* A supply chain long enough for the LIMIT of find_supply_chain_paths to cut:
\* Fab0 -> Fab1 -> ... -> Fab<len>, every Fab after Fab0 a Company, and with
\* branch a second Company, Annex, beside the last Fab.
FabName(i) == "Fab" \o ToString(i)
ChainBatch(len, branch) ==
    [entities |->
         [i \in 1..len |-> [name |-> Str(FabName(i)), type |-> Str("Company"),
                            properties |-> Dict(<<>>)]]
             \o (IF branch
                 THEN <<[name |-> Str("Annex"), type |-> Str("Company"),
                         properties |-> Dict(<<>>)]>>
                 ELSE <<>>),
     relationships |->
         [i \in 1..len |-> [source |-> Str(FabName(i - 1)), target |-> Str(FabName(i)),
                            type |-> Str("depends_on"), properties |-> Dict(<<>>)]]
             \o (IF branch
                 THEN <<[source |-> Str(FabName(len - 1)), target |-> Str("Annex"),
                         type |-> Str("produces"), properties |-> Dict(<<>>)]>>
                 ELSE <<>>)]
ChainPortfolio == [i \in 1..PathLimit |-> FabName(i)] \o <<"Annex">>

\* the batches list Nvidia once: as a Company or as a Product
PathBatches ==
    {[entities |-> Pick(PathEntityPool, E), relationships |-> Pick(PathRelPool, R)] :
        E \in {S \in SUBSET DOMAIN PathEntityPool : ~({3, 4} \subseteq S)},
        R \in SmallSubsets(DOMAIN PathRelPool, MaxPathRels)}
        \cup {ChainBatch(PathLimit, TRUE), ChainBatch(PathLimit, FALSE),
              ChainBatch(PathLimit - 1, TRUE)}

PathInit ==
    /\ ScoreIdle
    /\ ResolverIdle
    /\ ValidatorIdle
    /\ IngestIdle
    /\ PathIdle
    /\ ExtraIdle

\* a call and the number of records its path query returned (-1: the query
\* was never answered)
PathCall(op, start, targets, max_hops, found) ==
    [op |-> op, start |-> start, targets |-> targets, max_hops |-> max_hops,
     found |-> found]

\* The reasoners only read the store, so a behaviour makes one call: whatever a
\* later call could return, it returns as the first call on the same graph.
FindSupplyChainPaths(trigger_entity, affected_companies, max_hops) ==
    /\ ppc = "idle"
    /\ \E paths \in find_supply_chain_paths(Graph, trigger_entity, affected_companies,
                                            max_hops) :
           /\ pres' = Returned("find_supply_chain_paths", paths, FALSE, <<0, 1>>, "")
           /\ pcall' = PathCall("find_supply_chain_paths", trigger_entity,
                                affected_companies, max_hops, Len(paths))
    /\ ppc' = "done"
    /\ UNCHANGED <<pprev, resolverVars, validatorVars, ingestVars, scoreVars, extraVars>>

\* risk_level: what the model call of analyze_impact_chain gave
PortfolioRiskAnalysis(scenario, portfolio, max_hops, risk_level) ==
    /\ ppc = "idle"
    /\ LET key     == Lower(scenario)
           trigger == IF key \in DOMAIN trigger_mapping THEN trigger_mapping[key]
                      ELSE scenario
       IN  \E paths \in find_supply_chain_paths(Graph, trigger, portfolio, max_hops) :
               /\ pres' = portfolio_result(paths, risk_level)
               /\ pcall' = PathCall("portfolio_risk_analysis", trigger, portfolio,
                                    max_hops, Len(paths))
    /\ ppc' = "done"
    /\ UNCHANGED <<pprev, resolverVars, validatorVars, ingestVars, scoreVars, extraVars>>

\* generated: how the model call of generate_multihop_query went ("unusable":
\* JSON without a cypher entry, or Cypher the store rejects); inference: how
\* the model call of _generate_inference went.  A question may be asked a
\* second time, so that its two answers can be compared.
Reason(question, max_hops, generated, inference) ==
    /\ \/ ppc = "idle"
       \/ /\ ppc = "done"
          /\ pprev = <<>>
          /\ pcall.op = "reason"
          /\ pcall.start = question.start
          /\ pcall.targets = <<question.target>>
          /\ pcall.max_hops = max_hops
    /\ pprev' = IF ppc = "done" THEN [call |-> pcall, res |-> pres] ELSE <<>>
    /\ IF generated = "unusable"
       THEN /\ pres' = Raised("reason")
            /\ pcall' = PathCall("reason", question.start, <<question.target>>,
                                 max_hops, -1)
       ELSE \E paths \in QueryRows(Graph, question, max_hops, generated) :
                /\ pres' = reason_result(paths, inference)
                /\ pcall' = PathCall("reason", question.start, <<question.target>>,
                                     max_hops, Len(paths))
    /\ ppc' = "done"
    /\ UNCHANGED <<resolverVars, validatorVars, ingestVars, scoreVars, extraVars>>

\* the store is filled by one ingestion into the empty graph, then queried
BuildGraph ==
    /\ nruns = 0
    /\ ppc = "idle"
    /\ \E graphData \in PathBatches : IngestPdfGraph(graphData, "q3.pdf", "q3")

PathNext ==
    \/ BuildGraph
    \/ \E trigger_entity \in {"Taiwan Earthquake Risk", "TSMC", "Fab0"},
          affected_companies \in {<<"Nvidia">>, <<"Nvidia", "TSMC">>, <<>>, ChainPortfolio},
          max_hops \in {2, 4, PathLimit} :
           FindSupplyChainPaths(trigger_entity, affected_companies, max_hops)
    \/ \E scenario \in {"Taiwan Earthquake", "Taiwan Earthquake Risk", "Chip glut", "Fab0"},
          portfolio \in {<<"Nvidia">>, <<"Nvidia", "TSMC">>, <<>>, ChainPortfolio},
          max_hops \in {2, 4, PathLimit},
          risk_level \in {"High", ""} :
           PortfolioRiskAnalysis(scenario, portfolio, max_hops, risk_level)
    \/ \E question \in {[start |-> "Taiwan Earthquake Risk", target |-> "Nvidia"],
                        [start |-> "Nvidia", target |-> "Taiwan Earthquake Risk"]},
          max_hops \in {2, 4},
          generated \in {"failed", "query", "unusable"},
          inference \in {[kind |-> "failed", confidence |-> <<1, 2>>],
                         [kind |-> "malformed", confidence |-> <<0, 1>>],
                         [kind |-> "answered", confidence |-> <<0, 1>>],
                         [kind |-> "answered", confidence |-> <<17, 20>>],
                         [kind |-> "answered", confidence |-> <<3, 2>>]} :
           Reason(question, max_hops, generated, inference)

PathSpec == PathInit /\ [][PathNext]_vars

(***************************************************************************)
(* QueryProcessor._calculateConfidence                                     *)
(*                                                                         *)
(* A Python float the method can reach is [tenths, ulps]: the double that  *)
(* lies ulps units in the last place below the double nearest to tenths/10.*)
(***************************************************************************)
Float(tenths, ulps) == [tenths |-> tenths, ulps |-> ulps]

\* a + b on doubles, for the sums the method can form: rounding to nearest
\* gives 0.7 + 0.2 = 0.8999999999999999, 0.7 + 0.1 = 0.7999999999999999, and
\* adding 0.1 to those stays one unit below the decimal sum
FloatAdd(a, b) ==
    IF a.tenths + b.tenths >= 8
    THEN Float(a.tenths + b.tenths, 1)
    ELSE Float(a.tenths + b.tenths, 0)

\* min(a, b) on doubles
FloatMin(a, b) ==
    IF a.tenths < b.tenths \/ (a.tenths = b.tenths /\ a.ulps > b.ulps) THEN a ELSE b

\* reasoning_result.get(key): None, which is as false as [], for a key it lacks
ResultGet(result, key) == IF key \in result.keys THEN result[key] ELSE <<>>

\* the sum the method forms before min(confidence, 1.0)
ConfidenceSum(result) ==
    LET path_length == Len(ResultGet(result, "path"))
        base    == Float(5, 0)
        found   == IF path_length > 0 THEN FloatAdd(base, Float(2, 0)) ELSE base
        shaped  == IF path_length > 0 /\ 2 <= path_length /\ path_length <= 3
                   THEN FloatAdd(found, Float(2, 0))
                   ELSE IF path_length = 1 THEN FloatAdd(found, Float(1, 0)) ELSE found
        named   == IF ResultGet(result, "entities") # <<>>
                   THEN FloatAdd(shaped, Float(1, 0)) ELSE shaped
    IN  IF ResultGet(result, "reasoning_steps") # <<>>
        THEN FloatAdd(named, Float(1, 0)) ELSE named

\* a method that returns the sum as it is
_calculateConfidence_NoCap(result) == ConfidenceSum(result)

\* QueryProcessor._calculateConfidence
_calculateConfidence(result) == FloatMin(ConfidenceSum(result), Float(10, 0))

MaxPathLength == 4

\* the paths tried: of every length up to MaxPathLength, all of low criticality
\* or led by a relationship of high criticality
ScoredPaths ==
    {<<>>} \cup UNION {{[i \in 1..n |-> [type |-> "PRODUCES", criticality |-> 3]],
                        [i \in 1..n |-> IF i = 1 THEN [type |-> "DEPENDS_ON", criticality |-> 9]
                                        ELSE [type |-> "PRODUCES", criticality |-> 3]]} :
                          n \in 1..MaxPathLength}

\* the dicts tried; other_paths counts the further independent paths that
\* reach the target of path
ReasoningResults ==
    [keys : SUBSET {"path", "entities", "reasoning_steps"},
     path : ScoredPaths,
     entities : {<<>>, <<"Nvidia", "TSMC">>},
     reasoning_steps : {<<>>, <<"TSMC supplies Nvidia">>},
     other_paths : {0, 1}]

ScoreInit ==
    /\ ResolverIdle
    /\ ValidatorIdle
    /\ IngestIdle
    /\ PathIdle
    /\ ExtraIdle
    /\ reasoning_result \in ReasoningResults
    /\ score = <<>>
    /\ spc = "new"

CalculateConfidence ==
    /\ spc = "new"
    /\ score' = _calculateConfidence(reasoning_result)
    /\ spc' = "scored"
    /\ UNCHANGED reasoning_result
    /\ UNCHANGED <<resolverVars, validatorVars, ingestVars, pathVars, extraVars>>

ScoreNext == CalculateConfidence

ScoreSpec == ScoreInit /\ [][ScoreNext]_vars

(***************************************************************************)
(* CitationValidator: text handling                                        *)
(*                                                                         *)
(* TLA+ strings are ASCII.  The non-ASCII characters the validator tests   *)
(* for are written with these stand-ins, which occur in the modelled texts *)
(* with no other meaning:                                                  *)
(*     ~  U+2022 (bullet)        ^  U+C6D0 (won)      &  U+C5B5 (eok)       *)
(*     |  U+C870 (jo)            @  U+CC38            *  U+ACE0             *)
(* so "@*" is the word the source tests beside "References".               *)
(***************************************************************************)
BulletChar == "~"
WonChar == "^"
EokChar == "&"
JoChar == "|"
ChamgoWord == "@*"

HangulSet == {WonChar, EokChar, JoChar, "@", "*"}

\* the regex class \w
WordSet == UpperSet \cup LowerSet \cup DigitSet \cup {"_"} \cup HangulSet

\* the regex class [.!?]
EndPunctSet == {".", "!", "?"}

\* length of the run of digits s starts with
RECURSIVE DigitRunLen(_)
DigitRunLen(s) ==
    IF s # "" /\ Head(s) \in DigitSet THEN 1 + DigitRunLen(Tail(s)) ELSE 0

DigitValue(c) == (CHOOSE i \in 1..Len(DigitChars) : Char(DigitChars, i) = c) - 1

\* int(str) of a digit string
RECURSIVE ToInt(_)
ToInt(s) ==
    IF s = "" THEN 0
    ELSE 10 * ToInt(SubSeq(s, 1, Len(s) - 1)) + DigitValue(Char(s, Len(s)))

\* length of the match of \[\d+\] at the start of s, 0 when there is none
MarkerLen(s) ==
    IF s # "" /\ Head(s) = "["
    THEN LET d == DigitRunLen(Tail(s))
         IN  IF d > 0 /\ Len(s) >= d + 2 /\ Char(s, d + 2) = "]" THEN d + 2 ELSE 0
    ELSE 0

\* _extract_citations: re.findall(r'\[(\d+)\]', text) as ints
\* where the matches of \[\d+\] start; no two matches overlap
MarkerStarts(text) == {i \in 1..Len(text) : MarkerLen(Suffix(text, i)) > 0}

\* the elements of a set of integers in increasing order
RECURSIVE Ascending(_)
Ascending(S) ==
    IF S = {} THEN <<>> ELSE <<MinOf(S)>> \o Ascending(S \ {MinOf(S)})

_extract_citations(text) ==
    LET at == Ascending(MarkerStarts(text))
    IN  [n \in 1..Len(at) |->
            ToInt(SubSeq(text, at[n] + 1, at[n] + MarkerLen(Suffix(text, at[n])) - 2))]

\* re.sub(r'\[\d+\]', '', sentence)
RemoveMarkers(text) ==
    LET starts == MarkerStarts(text)
        InMarker(i) ==
            \E j \in starts : j <= i /\ i < j + MarkerLen(Suffix(text, j))
    IN  Rewrite(text, [i \in 1..Len(text) |-> IF InMarker(i) THEN "" ELSE Char(text, i)])

\* text.replace("\r\n", "\n")
ReplaceCrLf(t) ==
    Rewrite(t, [i \in 1..Len(t) |->
                   IF StartsWith(Suffix(t, i), "\r\n") THEN "" ELSE Char(t, i)])

\* re.sub(r"[bullet]\s*", "\n", t)
BulletsToNewlines(t) ==
    LET bullets == {j \in 1..Len(t) : Char(t, j) = BulletChar}
        \* position i is in the white space that directly follows a bullet
        AfterBullet(i) ==
            \E j \in bullets :
                j < i /\ \A k \in (j + 1)..i : Char(t, k) \in WhiteSet
    IN  Rewrite(t, [i \in 1..Len(t) |->
                       IF i \in bullets THEN "\n"
                       ELSE IF AfterBullet(i) THEN ""
                       ELSE Char(t, i)])

\* re.sub(r"\n{2,}", "\n", t)
CollapseNewlines(t) ==
    Rewrite(t, [i \in 1..Len(t) |->
                   IF StartsWith(Suffix(t, i), "\n\n") THEN "" ELSE Char(t, i)])

\* t.split("\n")
RECURSIVE SplitLines(_)
SplitLines(t) ==
    LET at == {i \in 1..Len(t) : Char(t, i) = "\n"}
    IN  IF at = {} THEN <<t>>
        ELSE LET i == MinOf(at)
             IN  <<SubSeq(t, 1, i - 1)>> \o SplitLines(SubSeq(t, i + 1, Len(t)))

\* re.split(r"(?<=[.!?])\s+", ln)
RECURSIVE SplitAfterPunct(_)
SplitAfterPunct(ln) ==
    LET at == {i \in 2..Len(ln) : Char(ln, i) \in WhiteSet /\ Char(ln, i - 1) \in EndPunctSet}
    IN  IF at = {} THEN <<ln>>
        ELSE LET i == MinOf(at)
             IN  <<SubSeq(ln, 1, i - 1)>> \o SplitAfterPunct(LStrip(SubSeq(ln, i, Len(ln))))

\* [p.strip() for p in parts if p.strip()]
RECURSIVE StripNonEmpty(_)
StripNonEmpty(parts) ==
    IF parts = <<>> THEN <<>>
    ELSE LET p == Strip(Head(parts))
         IN  (IF p = "" THEN <<>> ELSE <<p>>) \o StripNonEmpty(Tail(parts))

RECURSIVE SentencesOfLines(_)
SentencesOfLines(lines) ==
    IF lines = <<>> THEN <<>>
    ELSE StripNonEmpty(SplitAfterPunct(Head(lines))) \o SentencesOfLines(Tail(lines))

\* CitationValidator._split_sentences
_split_sentences(text) ==
    IF text = "" THEN <<>>
    ELSE LET t     == CollapseNewlines(BulletsToNewlines(ReplaceCrLf(text)))
             lines == StripNonEmpty(SplitLines(t))
         IN  SentencesOfLines(lines)

\* the threshold of "if len(clean_claim) > 10"
MinClaimLen == 10

RECURSIVE ClaimsOfSentences(_)
ClaimsOfSentences(sentences) ==
    IF sentences = <<>> THEN <<>>
    ELSE LET sentence    == Head(sentences)
             citations   == _extract_citations(sentence)
             clean_claim == Strip(RemoveMarkers(sentence))
         IN  (IF citations # <<>> /\ Len(clean_claim) > MinClaimLen
              THEN << <<clean_claim, citations>> >>
              ELSE <<>>) \o ClaimsOfSentences(Tail(sentences))

\* CitationValidator._extract_claims_with_citations
_extract_claims_with_citations(text) == ClaimsOfSentences(_split_sentences(text))

\* the threshold of "len(s) < 25" and the cut of "s[:120]"
MinFactualLen == 25
MissingCut == 120

HasDigit(s) == \E i \in 1..Len(s) : Char(s, i) \in DigitSet

\* the factual-signal test of _extract_uncited_factual_sentences
FactualSignal(s) ==
    \/ HasDigit(s)
    \/ Contains("%", s)
    \/ Contains("$", s)
    \/ Contains(WonChar, s)
    \/ Contains(EokChar, s)
    \/ Contains(JoChar, s)

Cut(s, n) == SubSeq(s, 1, IF Len(s) < n THEN Len(s) ELSE n)

\* a length test that also skips a sentence of exactly MinFactualLen characters
UncitedFactual_LongerOnly(s) ==
    /\ Len(s) > MinFactualLen
    /\ ~StartsWith(LStrip(s), "#")
    /\ ~(Contains("References", s) \/ Contains(ChamgoWord, s))
    /\ _extract_citations(s) = <<>>
    /\ FactualSignal(s)

\* the body of the loop of _extract_uncited_factual_sentences: is s reported
UncitedFactual(s) ==
    /\ ~(Len(s) < MinFactualLen)
    /\ ~StartsWith(LStrip(s), "#")
    /\ ~(Contains("References", s) \/ Contains(ChamgoWord, s))
    /\ _extract_citations(s) = <<>>
    /\ FactualSignal(s)

RECURSIVE MissingOfSentences(_)
MissingOfSentences(sentences) ==
    IF sentences = <<>> THEN <<>>
    ELSE (IF UncitedFactual(Head(sentences))
          THEN <<Cut(Head(sentences), MissingCut)>>
          ELSE <<>>) \o MissingOfSentences(Tail(sentences))

\* CitationValidator._extract_uncited_factual_sentences
_extract_uncited_factual_sentences(text) == MissingOfSentences(_split_sentences(text))

(***************************************************************************)
(* CitationValidator: claim support                                        *)
(***************************************************************************)
RECURSIVE WordRunLen(_)
WordRunLen(s) ==
    IF s # "" /\ Head(s) \in WordSet THEN 1 + WordRunLen(Tail(s)) ELSE 0

\* set(re.findall(r'\w+', s))
WordTokens(s) ==
    LET starts == {i \in 1..Len(s) :
                      /\ Char(s, i) \in WordSet
                      /\ (i = 1 \/ Char(s, i - 1) \notin WordSet)}
    IN  {SubSeq(s, i, i + WordRunLen(Suffix(s, i)) - 1) : i \in starts}

\* the stopwords of _claim_supported_by_source that ASCII texts can contain
\* (the source lists twelve Hangul particles as well)
Stopwords ==
    {"the", "a", "an", "and", "or", "but", "in", "on", "at", "to", "for",
     "of", "with", "by", "from", "as", "is", "was", "are", "were", "be"}

\* length of the common run of a from i and b from j, inside a[..ahi], b[..bhi]
RECURSIVE CommonRun(_, _, _, _, _, _)
CommonRun(a, i, ahi, b, j, bhi) ==
    IF i <= ahi /\ j <= bhi /\ Char(a, i) = Char(b, j)
    THEN 1 + CommonRun(a, i + 1, ahi, b, j + 1, bhi)
    ELSE 0

MaxOf(S) == CHOOSE m \in S : \A x \in S : m >= x

\* difflib.SequenceMatcher.find_longest_match without junk: the longest block,
\* the one starting earliest in a, then earliest in b; <<i, j, k>>
find_longest_match(a, alo, ahi, b, blo, bhi) ==
    LET run == [i \in alo..ahi, j \in blo..bhi |-> CommonRun(a, i, ahi, b, j, bhi)]
        k   == MaxOf({run[i, j] : i \in alo..ahi, j \in blo..bhi} \cup {0})
    IN  IF k = 0 THEN <<alo, blo, 0>>
        ELSE LET i == MinOf({x \in alo..ahi : \E y \in blo..bhi : run[x, y] = k})
                 j == MinOf({y \in blo..bhi : run[i, y] = k})
             IN  <<i, j, k>>

\* total size of difflib's matching blocks of a[alo..ahi] and b[blo..bhi]
RECURSIVE MatchedChars(_, _, _, _, _, _)
MatchedChars(a, alo, ahi, b, blo, bhi) ==
    IF alo > ahi \/ blo > bhi THEN 0
    ELSE LET m == find_longest_match(a, alo, ahi, b, blo, bhi)
         IN  IF m[3] = 0 THEN 0
             ELSE m[3]
                  + MatchedChars(a, alo, m[1] - 1, b, blo, m[2] - 1)
                  + MatchedChars(a, m[1] + m[3], ahi, b, m[2] + m[3], bhi)

\* the default of the parameter threshold (0.3), as ThresholdNum/ThresholdDen
ThresholdNum == 3
ThresholdDen == 10

\* SequenceMatcher(None, a, b).ratio() >= threshold, ratio = 2.0*M/T
RatioAtLeastThreshold(a, b) ==
    LET M == MatchedChars(a, 1, Len(a), b, 1, Len(b))
        T == Len(a) + Len(b)
    IN  IF T = 0 THEN TRUE
        ELSE 2 * M * ThresholdDen >= ThresholdNum * T

\* step 1 of _claim_supported_by_source
DirectContainment(claim_lower, source_lower) ==
    Contains(claim_lower, source_lower) \/ Contains(source_lower, claim_lower)

\* step 2: overlap = len(claim_words & source_words) / len(claim_words) >= threshold
KeywordOverlap(claim_words, source_words) ==
    Cardinality(claim_words \cap source_words) * ThresholdDen
        >= ThresholdNum * Cardinality(claim_words)

\* CitationValidator._claim_supported_by_source(claim, source_text)
_claim_supported_by_source(claim, source_text) ==
    IF claim = "" \/ source_text = "" THEN FALSE
    ELSE LET claim_lower  == Lower(claim)
             source_lower == Lower(source_text)
             claim_words  == WordTokens(claim_lower) \ Stopwords
             source_words == WordTokens(source_lower) \ Stopwords
         IN  IF DirectContainment(claim_lower, source_lower) THEN TRUE
             ELSE IF claim_words = {} THEN FALSE
             ELSE IF KeywordOverlap(claim_words, source_words) THEN TRUE
             ELSE RatioAtLeastThreshold(claim_lower, source_lower)

(***************************************************************************)
(* CitationValidator.validate_response                                     *)
(***************************************************************************)
\* dict.get(key, default)
Get(d, key, default) == IF key \in DOMAIN d THEN d[key] ELSE default

\* __init__: self.sources = {s['id']: s for s in sources}; a later entry with
\* the same id replaces an earlier one
SourcesById(srcs) ==
    [k \in {srcs[i].id : i \in DOMAIN srcs} |->
        srcs[MaxOf({i \in DOMAIN srcs : srcs[i].id = k})]]

\* the inner loop of validate_response: some cited id names a source whose
\* excerpt or original_sentence supports the claim
IsSupported(claim, citation_ids, byId) ==
    \E n \in DOMAIN citation_ids :
        LET cid == citation_ids[n]
        IN  /\ cid \in DOMAIN byId
            /\ LET source_text == Get(byId[cid], "excerpt", "")
                   original    == Get(byId[cid], "original_sentence", source_text)
               IN  \/ _claim_supported_by_source(claim, source_text)
                   \/ _claim_supported_by_source(claim, original)

\* the cut of "claim[:100]"
UnsupportedCut == 100

\* a listing that needs one valid cited id before a claim can be unsupported
RECURSIVE UnsupportedOf_NeedsValidId(_, _)
UnsupportedOf_NeedsValidId(claims, byId) ==
    IF claims = <<>> THEN <<>>
    ELSE LET claim        == Head(claims)[1]
             citation_ids == Head(claims)[2]
         IN  (IF /\ ~IsSupported(claim, citation_ids, byId)
                 /\ \E n \in DOMAIN citation_ids : citation_ids[n] \in DOMAIN byId
              THEN <<Cut(claim, UnsupportedCut)>>
              ELSE <<>>) \o UnsupportedOf_NeedsValidId(Tail(claims), byId)

\* step 3 of validate_response: the loop that fills unsupported_claims
RECURSIVE UnsupportedOf(_, _)
UnsupportedOf(claims, byId) ==
    IF claims = <<>> THEN <<>>
    ELSE LET claim        == Head(claims)[1]
             citation_ids == Head(claims)[2]
         IN  (IF ~IsSupported(claim, citation_ids, byId) /\ citation_ids # <<>>
              THEN <<Cut(claim, UnsupportedCut)>>
              ELSE <<>>) \o UnsupportedOf(Tail(claims), byId)

\* exact fractions <<numerator, denominator>> stand for the Python floats
RECURSIVE Gcd(_, _)
Gcd(a, b) == IF b = 0 THEN a ELSE Gcd(b, a % b)

Frac(n, d) == LET g == Gcd(n, d) IN <<n \div g, d \div g>>
FracAdd(x, y) == Frac(x[1] * y[2] + y[1] * x[2], x[2] * y[2])
FracMul(x, y) == Frac(x[1] * y[1], x[2] * y[2])
FracSub(x, y) == Frac(x[1] * y[2] - y[1] * x[2], x[2] * y[2])
FracLeq(x, y) == x[1] * y[2] <= y[1] * x[2]
FracMin(x, y) == IF FracLeq(x, y) THEN x ELSE y

\* a validator that takes the ids 1..n of n sources as the valid ones
InvalidCitations_ByCount(citations, byId) ==
    SelectSeq(citations, LAMBDA c : c <= 0 \/ c > Cardinality(DOMAIN byId))

\* step 2 of validate_response: [c for c in citations if c not in self.sources]
InvalidCitations(citations, byId) ==
    SelectSeq(citations, LAMBDA c : c \notin DOMAIN byId)

\* a verdict that leaves the uncited factual sentences out
IsValid_IgnoresMissing(invalid_citations, unsupported_claims, missing_citations) ==
    Len(invalid_citations) = 0 /\ Len(unsupported_claims) = 0

\* the "is_valid" entry of the returned dict
IsValid(invalid_citations, unsupported_claims, missing_citations) ==
    /\ Len(invalid_citations) = 0
    /\ Len(unsupported_claims) = 0
    /\ Len(missing_citations) = 0

\* the weights 0.7 and 0.3 and the penalty 0.5 of validate_response, in tenths
CitationWeight == 7
ClaimWeight == 3
MissingPenalty == 5
Tenths == 10

\* a score whose penalty for uncited sentences is not halved
ConfidenceScore_FullPenalty(total_citations, valid_citations, total_claims, n_unsupported, n_missing, n_sentences) ==
    LET citation_accuracy == IF total_citations > 0
                             THEN Frac(valid_citations, total_citations)
                             ELSE Frac(1, 1)
        claim_support     == IF total_claims > 0
                             THEN Frac(total_claims - n_unsupported, total_claims)
                             ELSE Frac(1, 1)
        base              == FracAdd(FracMul(citation_accuracy, Frac(CitationWeight, Tenths)),
                                     FracMul(claim_support, Frac(ClaimWeight, Tenths)))
    IN  IF n_missing > 0
        THEN FracMul(base, FracSub(Frac(1, 1),
                                   FracMin(Frac(1, 1),
                                           Frac(n_missing,
                                                IF n_sentences > 1 THEN n_sentences ELSE 1))))
        ELSE base

\* step 4 of validate_response: the confidence score
ConfidenceScore(total_citations, valid_citations, total_claims, n_unsupported, n_missing, n_sentences) ==
    LET citation_accuracy == IF total_citations > 0
                             THEN Frac(valid_citations, total_citations)
                             ELSE Frac(1, 1)
        claim_support     == IF total_claims > 0
                             THEN Frac(total_claims - n_unsupported, total_claims)
                             ELSE Frac(1, 1)
        base              == FracAdd(FracMul(citation_accuracy, Frac(CitationWeight, Tenths)),
                                     FracMul(claim_support, Frac(ClaimWeight, Tenths)))
    IN  IF n_missing > 0
        THEN LET missing_rate ==
                     FracMin(Frac(1, 1),
                             Frac(n_missing, IF n_sentences > 1 THEN n_sentences ELSE 1))
             IN  FracMul(base, FracSub(Frac(1, 1),
                                       FracMul(Frac(MissingPenalty, Tenths), missing_rate)))
        ELSE base

\* CitationValidator(srcs).validate_response(resp)
validate_response(resp, srcs) ==
    LET byId               == SourcesById(srcs)
        citations          == _extract_citations(resp)
        invalid_citations  == InvalidCitations(citations, byId)
        claims             == _extract_claims_with_citations(resp)
        unsupported_claims == UnsupportedOf(claims, byId)
        missing_citations  == _extract_uncited_factual_sentences(resp)
        total_citations    == Len(citations)
        valid_citations    == total_citations - Len(invalid_citations)
    IN  [is_valid           |-> IsValid(invalid_citations, unsupported_claims,
                                        missing_citations),
         invalid_citations  |-> invalid_citations,
         unsupported_claims |-> unsupported_claims,
         missing_citations  |-> missing_citations,
         confidence_score   |-> ConfidenceScore(total_citations, valid_citations,
                                                Len(claims), Len(unsupported_claims),
                                                Len(missing_citations),
                                                Len(_split_sentences(resp))),
         total_citations    |-> total_citations,
         valid_citations    |-> valid_citations]

\* build_evidence with every provided source attached to every claim
build_evidence_AllSources(resp, srcs) ==
    LET claims == _extract_claims_with_citations(resp)
    IN  [i \in DOMAIN claims |->
            [claim_id     |-> i,
             claim_text   |-> claims[i][1],
             citation_ids |-> claims[i][2],
             sources      |-> srcs]]

\* build_evidence: one dict per (claim, citation_ids) pair of
\* _extract_claims_with_citations, numbered by enumerate(claims, 1); srcs
\* collects self.sources[cid] for each cid of citation_ids, in order, that is
\* a key of self.sources
build_evidence(resp, srcs) ==
    LET claims == _extract_claims_with_citations(resp)
        byId   == SourcesById(srcs)
    IN  [i \in DOMAIN claims |->
            LET citation_ids == claims[i][2]
                known == SelectSeq(citation_ids, LAMBDA cid : cid \in DOMAIN byId)
            IN  [claim_id     |-> i,
                 claim_text   |-> claims[i][1],
                 citation_ids |-> citation_ids,
                 sources      |-> [n \in DOMAIN known |-> byId[known[n]]]]]

(***************************************************************************)
(* Validator specification: one validator per answer                       *)
(***************************************************************************)
MaxSentences == 2
MaxSources == 2

\* pieces of answer text, each ending where a sentence ends
Corpus == <<
    "Revenue grew 20% [1]. ",
    "Company X acquired Company Z [1]. ",
    "Revenue grew 45% this quarter. ",
    "Net income rose 9% in Q3.\n",
    "Net sales rose 9% in Q3.\r\n",
    "# Outlook for fiscal year 2025\n\n",
    "See References section 4 for sources. ",
    "The outlook remains broadly stable. ",
    "Margins fell sharply [2][7]! ",
    "Up 3% [1]. ",
    "~ Costs rose by several $ millions\n",
    "Demand doubled in Asia [0][1]. ",
    "Profit reached several | last year? ",
    "Revenues growing yearly [1]. ",
    "In 2024 the company expanded its manufacturing footprint across three continents while keeping capital expenditure under tight control. ",
    "The board approved a multi year plan to relocate advanced packaging lines closer to key customers and partners abroad [3]. "
>>

SourcePool == <<
    [id |-> 1, excerpt |-> "Revenue grew 20% year over year"],
    [id |-> 2, excerpt |-> "Gross margins fell sharply in Europe"],
    [id |-> 7, excerpt |-> "", original_sentence |-> "Margins fell"]
>>

RECURSIVE Concat(_)
Concat(parts) == IF parts = <<>> THEN "" ELSE Head(parts) \o Concat(Tail(parts))

Responses == {Concat(Pick(Corpus, S)) : S \in SmallSubsets(DOMAIN Corpus, MaxSentences)}
SourceLists == {Pick(SourcePool, S) : S \in SmallSubsets(DOMAIN SourcePool, MaxSources)}

ValidatorInit ==
    /\ ScoreIdle
    /\ ResolverIdle
    /\ IngestIdle
    /\ PathIdle
    /\ ExtraIdle
    /\ response \in Responses
    /\ sources \in SourceLists
    /\ vresult = <<>>
    /\ vpc = "new"

ValidateResponse ==
    /\ vpc = "new"
    /\ vresult' = validate_response(response, sources)
    /\ vpc' = "validated"
    /\ UNCHANGED <<response, sources>>
    /\ UNCHANGED <<resolverVars, ingestVars, pathVars, scoreVars, extraVars>>

\* validator.build_evidence(response), before or after validate_response
BuildEvidence ==
    /\ bpc = "new"
    /\ evidence' = build_evidence(response, sources)
    /\ bpc' = "built"
    /\ UNCHANGED <<response, sources, vresult, vpc>>
    /\ UNCHANGED <<resolverVars, ingestVars, pathVars, scoreVars, normVars, sharedVars,
                   sanitizeVars, pdfVars>>

ValidatorNext == ValidateResponse \/ BuildEvidence

ValidatorSpec == ValidatorInit /\ [][ValidatorNext]_vars

(***************************************************************************)
(* Properties of validate_response                                         *)
(***************************************************************************)
Validated == vpc = "validated"

\* the sentences of the answer and what each one cites
Sentences == _split_sentences(response)
SentenceSet == {Sentences[i] : i \in DOMAIN Sentences}
SeqToSet(q) == {q[i] : i \in DOMAIN q}
CitedIds(text) == SeqToSet(_extract_citations(text))
SourceIds == {sources[i].id : i \in DOMAIN sources}
BareClaim(sentence) == Strip(RemoveMarkers(sentence))

\* C3 as stated: a cited id is reported invalid exactly when it is <= 0 or
\* greater than the number of provided sources.
C3_InvalidIffOutOfRange ==
    Validated =>
        \A k \in CitedIds(response) :
            InList(k, vresult.invalid_citations) <=> (k <= 0 \/ k > Len(sources))

\* C3 amended: a cited id is reported invalid exactly when no provided source
\* has that id (for sources numbered 1..n: exactly when it is <= 0 or > n), and
\* an answer citing such an id is not valid.
C3_InvalidIffUnknownId ==
    Validated =>
        /\ \A k \in CitedIds(response) :
               InList(k, vresult.invalid_citations) <=> k \notin SourceIds
        /\ SeqToSet(vresult.invalid_citations) \subseteq CitedIds(response)
        /\ (\E k \in CitedIds(response) : k \notin SourceIds) => ~vresult.is_valid
        /\ SourceIds = 1..Len(sources) =>
               \A k \in CitedIds(response) :
                   InList(k, vresult.invalid_citations) <=> (k <= 0 \/ k > Len(sources))

\* an id within 1..number of sources is reported invalid, and an id above the
\* number of sources is accepted
C3_Witness ==
    /\ Validated
    /\ ~vresult.is_valid
    /\ \E k \in CitedIds(response) :
           k >= 1 /\ k <= Len(sources) /\ InList(k, vresult.invalid_citations)

\* the three support tests, for one claim and one source text
PassesSupportTest(claim, text) ==
    /\ claim # ""
    /\ text # ""
    /\ LET c  == Lower(claim)
           t  == Lower(text)
           cw == WordTokens(c) \ Stopwords
           tw == WordTokens(t) \ Stopwords
       IN  \/ Contains(c, t)
           \/ Contains(t, c)
           \/ /\ cw # {}
              /\ \/ 10 * Cardinality(cw \cap tw) >= 3 * Cardinality(cw)
                 \/ RatioAtLeastThreshold(c, t)

\* the texts a provided source offers as evidence
EvidenceTexts(src) ==
    {Get(src, "excerpt", "")}
        \cup (IF "original_sentence" \in DOMAIN src THEN {src.original_sentence} ELSE {})

ValidCitedIds(sentence) == CitedIds(sentence) \cap SourceIds

SupportedBySomeSource(sentence) ==
    \E k \in ValidCitedIds(sentence) :
        \E text \in EvidenceTexts(SourcesById(sources)[k]) :
            PassesSupportTest(BareClaim(sentence), text)

ListedUnsupported(sentence) ==
    InList(Cut(BareClaim(sentence), 100), vresult.unsupported_claims)

\* C4 as stated: unsupported_claims holds exactly the sentences with at least
\* one valid citation id that none of their cited sources supports.
C4_UnsupportedIffValidIdUnsupported ==
    Validated =>
        \A sentence \in SentenceSet :
            ListedUnsupported(sentence)
                <=> (ValidCitedIds(sentence) # {} /\ ~SupportedBySomeSource(sentence))

\* is this sentence an unsupported claim, as the code decides it
IsUnsupportedClaim(sentence) ==
    /\ CitedIds(sentence) # {}
    /\ Len(BareClaim(sentence)) > 10
    /\ ~SupportedBySomeSource(sentence)

RECURSIVE CutAll(_, _)
CutAll(q, n) == IF q = <<>> THEN <<>> ELSE <<Cut(Head(q), n)>> \o CutAll(Tail(q), n)

RECURSIVE BareClaims(_)
BareClaims(q) == IF q = <<>> THEN <<>> ELSE <<BareClaim(Head(q))>> \o BareClaims(Tail(q))

\* C4 amended: unsupported_claims holds, in text order, the first 100
\* characters of the marker-free text of exactly the sentences that carry a
\* citation marker, are longer than 10 characters without their markers, and
\* have no valid cited source that passes a support test; a sentence supported
\* by a cited source is never listed, and a sentence whose ids are all invalid
\* is listed without a support test.
C4_UnsupportedClaims ==
    Validated =>
        LET sents == Sentences
        IN  /\ vresult.unsupported_claims
                   = CutAll(BareClaims(SelectSeq(sents, IsUnsupportedClaim)), 100)
            /\ \A sentence \in SeqToSet(sents) :
                   ListedUnsupported(sentence) => ~SupportedBySomeSource(sentence)
            /\ \A sentence \in SeqToSet(sents) :
                   (/\ CitedIds(sentence) # {}
                    /\ ValidCitedIds(sentence) = {}
                    /\ Len(BareClaim(sentence)) > 10) => ListedUnsupported(sentence)

\* a sentence none of whose ids is valid is listed, beside a sentence with a
\* valid id that its source supports
C4_Witness ==
    /\ Validated
    /\ \E sentence \in SentenceSet :
           /\ CitedIds(sentence) # {}
           /\ ValidCitedIds(sentence) = {}
           /\ ListedUnsupported(sentence)
    /\ \E sentence \in SentenceSet :
           ValidCitedIds(sentence) # {} /\ SupportedBySomeSource(sentence)

HasMarker(sentence) ==
    \E i \in 1..Len(sentence) : MarkerLen(SubSeq(sentence, i, Len(sentence))) > 0

HeadingOrReferences(sentence) ==
    \/ Char(sentence, 1) = "#"
    \/ Contains("References", sentence)
    \/ Contains(ChamgoWord, sentence)

NumeralCurrencyOrPercent(sentence) ==
    \E i \in 1..Len(sentence) :
        Char(sentence, i) \in DigitSet \cup {"%", "$", WonChar, EokChar, JoChar}

ListedMissing(sentence) == InList(Cut(sentence, 120), vresult.missing_citations)

\* C5 as stated: a sentence is in missing_citations exactly when it is longer
\* than 25 characters, is no heading or references line, has a numeral, a
\* currency symbol or a percent sign, and has no citation marker.
C5_MissingIffLongerThan25 ==
    Validated =>
        \A sentence \in SentenceSet :
            ListedMissing(sentence)
                <=> /\ Len(sentence) > 25
                    /\ ~HeadingOrReferences(sentence)
                    /\ NumeralCurrencyOrPercent(sentence)
                    /\ ~HasMarker(sentence)

IsMissingCitation(sentence) ==
    /\ Len(sentence) >= 25
    /\ ~HeadingOrReferences(sentence)
    /\ NumeralCurrencyOrPercent(sentence)
    /\ ~HasMarker(sentence)

\* C5 amended: missing_citations holds, in text order, the first 120
\* characters of exactly the sentences of at least 25 characters that are no
\* heading or references line, have a numeral, currency or percent signal and
\* no citation marker; a sentence of 24 characters or fewer is never listed.
C5_MissingCitations ==
    Validated =>
        LET sents == Sentences
        IN  /\ vresult.missing_citations = CutAll(SelectSeq(sents, IsMissingCitation), 120)
            /\ \A sentence \in SeqToSet(sents) :
                   Len(sentence) <= 24 => ~ListedMissing(sentence)

\* a sentence of exactly 25 characters is listed
C5_Witness ==
    /\ Validated
    /\ \E sentence \in SentenceSet : Len(sentence) = 25 /\ ListedMissing(sentence)

\* C6: is_valid is True exactly when invalid_citations, unsupported_claims and
\* missing_citations are all empty, and then the confidence score is >= 0.7.
C6_ValidIffNothingReported ==
    Validated =>
        /\ vresult.is_valid
               <=> /\ vresult.invalid_citations = <<>>
                   /\ vresult.unsupported_claims = <<>>
                   /\ vresult.missing_citations = <<>>
        /\ vresult.is_valid => FracLeq(<<7, 10>>, vresult.confidence_score)

\* a valid answer that cites a source
C6_Witness ==
    /\ Validated
    /\ vresult.is_valid
    /\ vresult.total_citations > 0

\* the quantities the confidence formula is stated over
NumCitations == Len(_extract_citations(response))
NumValidCitations ==
    Len(SelectSeq(_extract_citations(response), LAMBDA k : k \in SourceIds))
NumClaims ==
    Len(SelectSeq(Sentences,
                  LAMBDA x : CitedIds(x) # {} /\ Len(BareClaim(x)) > 10))
NumUnsupported == Len(vresult.unsupported_claims)
NumMissing == Len(vresult.missing_citations)

CitationAccuracy ==
    LET total == NumCitations
    IN  IF total = 0 THEN <<1, 1>> ELSE Frac(NumValidCitations, total)
ClaimSupport ==
    LET total == NumClaims
    IN  IF total = 0 THEN <<1, 1>> ELSE Frac(total - NumUnsupported, total)
MissingRate ==
    LET total == Len(Sentences)
    IN  IF total = 0 THEN <<0, 1>> ELSE FracMin(<<1, 1>>, Frac(NumMissing, total))
WeightedBase ==
    FracAdd(FracMul(<<7, 10>>, CitationAccuracy), FracMul(<<3, 10>>, ClaimSupport))

\* C7: confidence_score = (0.7*citationAccuracy + 0.3*claimSupport)
\* * (1 - 0.5*missingRate); it lies in [0,1] and missing citations take away
\* at most half of the weighted sum.
C7_ConfidenceFormula ==
    Validated =>
        LET weighted == WeightedBase
        IN  /\ vresult.confidence_score
                   = FracMul(weighted, FracSub(<<1, 1>>, FracMul(<<1, 2>>, MissingRate)))
            /\ FracLeq(<<0, 1>>, vresult.confidence_score)
            /\ FracLeq(vresult.confidence_score, <<1, 1>>)
            /\ FracLeq(FracMul(<<1, 2>>, weighted), vresult.confidence_score)

\* every term of the formula is in play: an invalid and a valid citation, an
\* unsupported claim and an uncited factual sentence
C7_Witness ==
    /\ Validated
    /\ NumValidCitations > 0
    /\ NumValidCitations < NumCitations
    /\ NumUnsupported > 0
    /\ NumMissing > 0
    /\ NumMissing < Len(Sentences)

(***************************************************************************)
(* Properties of path discovery                                            *)
(***************************************************************************)
FoundPaths == ppc = "done" /\ pcall.op = "find_supply_chain_paths" /\ ~pres.raised

\* no node occurs twice among the nodes of a returned path
IsSimple(path) ==
    \A i, j \in DOMAIN path.ids : i # j => path.ids[i] # path.ids[j]

\* C10: every path find_supply_chain_paths returns is a simple path, no node
\* occurring more than once in it, also on graphs that contain cycles.
C10_PathsAreSimple ==
    FoundPaths => \A i \in DOMAIN pres.paths : IsSimple(pres.paths[i])

\* the ways the graph is a chain A -[R1]-> B -[R2]-> C and nothing else:
\* <<position of R1, position of R2>>
Chains ==
    IF Len(gnodes) # 3 \/ Len(gedges) # 2 THEN {}
    ELSE {c \in (DOMAIN gedges) \X (DOMAIN gedges) :
             /\ c[1] # c[2]
             /\ gedges[c[1]].dst = gedges[c[2]].src
             /\ Cardinality({gedges[c[1]].src, gedges[c[1]].dst, gedges[c[2]].dst}) = 3}

NodeName(n) == IF "name" \in DOMAIN gnodes[n].props THEN gnodes[n].props["name"] ELSE None

\* find_supply_chain_paths was asked for the paths from A to {C} with max_hops 2
AskedAlong(c) ==
    /\ FoundPaths
    /\ pcall.max_hops = 2
    /\ NodeName(gedges[c[1]].src) = Str(pcall.start)
    /\ Len(pcall.targets) = 1
    /\ NodeName(gedges[c[2]].dst) = Str(pcall.targets[1])

ThreeNames(c) ==
    Cardinality({NodeName(gedges[c[1]].src), NodeName(gedges[c[1]].dst),
                 NodeName(gedges[c[2]].dst)}) = 3

OnePathOfTwoHops == Len(pres.paths) = 1 /\ pres.paths[1].hops = 2

Admitted(c) ==
    /\ "Company" \in gnodes[gedges[c[2]].dst].labels
    /\ gedges[c[1]].type \in AllowedTypes
    /\ gedges[c[2]].type \in AllowedTypes

NoConnectingPath ==
    ~\E w \in Walks(gedges, pcall.max_hops) :
        /\ NodeName(gedges[w[1]].src) = Str(pcall.start)
        /\ \E i \in DOMAIN pcall.targets :
               NodeName(gedges[w[Len(w)]].dst) = Str(pcall.targets[i])

Reasoned == ppc = "done" /\ pcall.op \in {"reason", "portfolio_risk_analysis"}

EmptyWithZeroConfidence ==
    /\ ~pres.raised
    /\ pres.paths = <<>>
    /\ pres.has_confidence
    /\ pres.confidence = <<0, 1>>

RECURSIVE SimplePathsFrom(_, _, _)
SimplePathsFrom(a, n, visited) ==
    IF n = 0 THEN {}
    ELSE UNION {{<<e>>} \cup {<<e>> \o rest :
                                 rest \in SimplePathsFrom(gedges[e].dst, n - 1,
                                                          visited \cup {gedges[e].dst})} :
                   e \in {x \in DOMAIN gedges :
                             gedges[x].src = a /\ gedges[x].dst \notin visited}}

\* the names the call asked for; an empty list asks for the name ''
TargetNames ==
    IF pcall.targets = <<>> THEN {Str("")}
    ELSE {Str(pcall.targets[i]) : i \in DOMAIN pcall.targets}

\* the returned record is a path of the graph with its hop count
IsPathOfGraph(path) ==
    /\ path.hops = Len(path.relationships)
    /\ Len(path.ids) = path.hops + 1
    /\ \A i \in DOMAIN path.relationships :
           \E e \in DOMAIN gedges :
               /\ gedges[e].src = path.ids[i]
               /\ gedges[e].dst = path.ids[i + 1]
               /\ gedges[e].type = path.relationships[i].type

StartsAndStaysAllowed(path) ==
    /\ IsPathOfGraph(path)
    /\ NodeName(path.ids[1]) = Str(pcall.start)
    /\ path.hops >= 1
    /\ path.hops <= pcall.max_hops
    /\ \A i \in DOMAIN path.relationships : path.relationships[i].type \in AllowedTypes

\* the simple paths from a node named as the start, over allowed types only
AllowedSimplePaths ==
    {w \in UNION {SimplePathsFrom(a, pcall.max_hops, {a}) :
                     a \in {n \in DOMAIN gnodes : NodeName(n) = Str(pcall.start)}} :
        \A i \in DOMAIN w : gedges[w[i]].type \in AllowedTypes}

EndOf(w) == gedges[w[Len(w)]].dst

IsReturned(w) ==
    \E i \in DOMAIN pres.paths :
        /\ pres.paths[i].ids = <<gedges[w[1]].src>> \o [k \in DOMAIN w |-> gedges[w[k]].dst]
        /\ \A k \in DOMAIN w : pres.paths[i].relationships[k].type = gedges[w[k]].type

CapReached == Len(pres.paths) >= PathLimit

IsTargetCompany(n) == "Company" \in gnodes[n].labels /\ NodeName(n) \in TargetNames

Qualifying == {w \in AllowedSimplePaths : IsTargetCompany(EndOf(w))}
Omitted == {w \in Qualifying : ~IsReturned(w)}

\* C12: the list find_supply_chain_paths returns is sorted by non-decreasing
\* hop count and holds at most 20 paths; when more than 20 paths qualify, no
\* omitted path is shorter than a returned one.
C12_SortedAndCapped ==
    FoundPaths =>
        /\ \A i, j \in DOMAIN pres.paths : i <= j => pres.paths[i].hops <= pres.paths[j].hops
        /\ Len(pres.paths) <= PathLimit
        /\ Cardinality(Qualifying) > PathLimit =>
               \A w \in Omitted : \A i \in DOMAIN pres.paths : Len(w) >= pres.paths[i].hops

\* the cap cut a path that is as long as the last one returned
C12_Witness ==
    /\ FoundPaths
    /\ Cardinality(Qualifying) > PathLimit
    /\ Len(pres.paths) = PathLimit
    /\ \E w \in Omitted : Len(w) = pres.paths[PathLimit].hops
    /\ pres.paths[1].hops < pres.paths[PathLimit].hops

\* reason answered the same question twice without raising
ReasonedTwice ==
    /\ ppc = "done"
    /\ pcall.op = "reason"
    /\ pprev # <<>>
    /\ ~pres.raised
    /\ ~pprev.res.raised

InUnitInterval(q) == 0 <= q[1] /\ q[1] <= q[2]

\* C13: the confidence of a reasoning result is a function of the paths found:
\* two runs that find the same paths report the same confidence whatever the
\* generative model answers, and the reported confidence lies in [0,1].
C13_ConfidenceDeterminedByPaths ==
    /\ ReasonedTwice /\ pres.paths = pprev.res.paths =>
           pres.confidence = pprev.res.confidence
    /\ ppc = "done" /\ pcall.op = "reason" /\ ~pres.raised =>
           InUnitInterval(pres.confidence)

(***************************************************************************)
(* Properties of _calculateConfidence                                      *)
(***************************************************************************)
Scored == spc = "scored"

\* the path the result carries, none when the dict has no path
WinningPath == IF "path" \in reasoning_result.keys THEN reasoning_result.path ELSE <<>>

HopBonus ==
    IF Len(WinningPath) \in {2, 3} THEN 2 ELSE IF Len(WinningPath) = 1 THEN 1 ELSE 0

\* min(1, tenths/10) up to one unit in the last place of the double
IsCapped(x, tenths) ==
    /\ x.tenths = IF tenths < 10 THEN tenths ELSE 10
    /\ x.ulps \in {0, 1}

HasSome(key) == key \in reasoning_result.keys /\ reasoning_result[key] # <<>>

Usable(v) == v.kind = "str" /\ Strip(v.text) # ""

WellFormedEntity(entity) == Usable(entity.name)
WellFormedRel(rel) == Usable(rel.source) /\ Usable(rel.target)

\* the last batch without its malformed items
WellFormedOnly ==
    LET entities      == icall.graphData.entities
        relationships == icall.graphData.relationships
    IN  [entities |-> Pick(entities, {i \in DOMAIN entities : WellFormedEntity(entities[i])}),
         relationships |->
             Pick(relationships,
                  {i \in DOMAIN relationships : WellFormedRel(relationships[i])})]

\* the graph before the last call
Before == [nodes |-> iprev.nodes, edges |-> iprev.edges, clock |-> 0]

\* C15: ingestPdfGraph never raises because of a malformed item: entities
\* without a usable name and relationships without a source or target are
\* skipped with no graph write, and the well-formed items of the batch are all
\* upserted and counted.
C15_MalformedItemsSkipped ==
    nruns > 0 =>
        LET clean == ingestPdfGraph(Before, WellFormedOnly, icall.sourceFile,
                                    icall.sourceLabel)
        IN  /\ ~ires.raised
            /\ ires.entitiesMerged = Len(WellFormedOnly.entities)
            /\ ires.relationshipsCreated = Len(WellFormedOnly.relationships)
            /\ Timeless(gnodes) = Timeless(clean.g.nodes)
            /\ Timeless(gedges) = Timeless(clean.g.edges)


\* the keys for which some item of the batch brings a value that is not null
NonNullKeys(items) ==
    UNION {{k \in DOMAIN PropsOf(items[i]) : PropsOf(items[i])[k].kind # "none"} :
               i \in DOMAIN items}

\* the fields every upsert statement sets itself
ProvenanceKeys == {"source", "source_label", "source_file", "updated_at"}

\* what was stored on the items of old under keys outside written is still
\* stored on them in new
StoredKept(old, new, written) ==
    \A i \in DOMAIN old : \A k \in DOMAIN old[i].props \ written :
        /\ k \in DOMAIN new[i].props
        /\ new[i].props[k] = old[i].props[k]

\* C16: an upsert overwrites stored values only with the non-null values of the
\* incoming property map: a value stored under a key that comes in as null, or
\* that does not come in at all, is the same after the call (the provenance
\* fields, which every upsert sets, aside).
C16_NullNeverOverwrites ==
    nruns > 0 =>
        /\ StoredKept(iprev.nodes, gnodes,
                      NonNullKeys(icall.graphData.entities) \cup ProvenanceKeys)
        /\ StoredKept(iprev.edges, gedges,
                      NonNullKeys(icall.graphData.relationships) \cup ProvenanceKeys)


\* the (source name, relationship type, target name) triple of a stored edge
TripleOf(nodes, edge) ==
    <<nodes[edge.src].props["name"], edge.type, nodes[edge.dst].props["name"]>>

\* C18: after any sequence of upserts the graph holds at most one edge for each
\* (source canonical name, relationship type, target canonical name) triple:
\* upserting a triple that is already stored creates no second edge.
C18_OneEdgePerTriple ==
    \A e1, e2 \in DOMAIN gedges :
        TripleOf(gnodes, gedges[e1]) = TripleOf(gnodes, gedges[e2]) => e1 = e2


\* C20: after any sequence of ingestPdfGraph calls every node and every
\* relationship of the graph, the end nodes created for a relationship
\* included, carries the four provenance fields source, source_label,
\* source_file and updated_at.
C20_ProvenanceEverywhere ==
    /\ \A i \in DOMAIN gnodes : ProvenanceKeys \subseteq DOMAIN gnodes[i].props
    /\ \A e \in DOMAIN gedges : ProvenanceKeys \subseteq DOMAIN gedges[e].props


\* the last call completed a batch that a store error had interrupted before
Retried == ibase # <<>> /\ ibase.state = "retried" /\ ~ires.raised

\* C19: when ingestPdfGraph fails partway through a batch on a store error and
\* the same batch is retried until it completes, the graph is the graph that
\* one uninterrupted run of the batch gives (updated_at aside).
C19_RetryEqualsOneRun ==
    Retried =>
        LET once == ingestPdfGraph([nodes |-> ibase.nodes, edges |-> ibase.edges, clock |-> 0],
                                   icall.graphData, icall.sourceFile, icall.sourceLabel)
        IN  /\ Timeless(gnodes) = Timeless(once.g.nodes)
            /\ Timeless(gedges) = Timeless(once.g.edges)


\* the canonical names of the entities a batch mentions in items that are
\* upserted: as an entity's name or as an end of a relationship
Mentions(graphData) ==
    LET entities      == graphData.entities
        relationships == graphData.relationships
        Canonical(v)  == resolver_resolve(ALIASES, v.text)
    IN  {Canonical(entities[i].name) :
             i \in {j \in DOMAIN entities : WellFormedEntity(entities[j])}}
        \cup {Canonical(relationships[i].source) :
                  i \in {j \in DOMAIN relationships : WellFormedRel(relationships[j])}}
        \cup {Canonical(relationships[i].target) :
                  i \in {j \in DOMAIN relationships : WellFormedRel(relationships[j])}}

\* both concurrent calls have returned
BothReturned ==
    /\ workers # <<>>
    /\ \A w \in 1..2 : ~workers[w].raised /\ workers[w].pos = NumItems(workers[w].graphData)

\* the entities both batches mention
Shared == Mentions(workers[1].graphData) \cap Mentions(workers[2].graphData)

\* the property keys a batch writes on the entity of that canonical name
KeysWritten(graphData, name) ==
    LET entities == graphData.entities
    IN  UNION {DOMAIN PropsOf(entities[i]) :
                   i \in {j \in DOMAIN entities :
                              /\ WellFormedEntity(entities[j])
                              /\ resolver_resolve(ALIASES, entities[j].name.text) = name}}

\* the nodes and edges of a graph as sets, with their numbers
Shape(g) ==
    [nodes  |-> {[labels |-> g.nodes[i].labels, name |-> g.nodes[i].props["name"]] :
                     i \in DOMAIN g.nodes},
     nnodes |-> Len(g.nodes),
     edges  |-> {TripleOf(g.nodes, g.edges[e]) : e \in DOMAIN g.edges},
     nedges |-> Len(g.edges)]

\* the graph after the call of worker a has run alone and then that of worker b
OneAfterTheOther(a, b) ==
    LET empty == [nodes |-> <<>>, edges |-> <<>>, clock |-> 0]
        alone == ingestPdfGraph(empty, workers[a].graphData, workers[a].sourceFile,
                                workers[a].sourceLabel)
    IN  ingestPdfGraph(alone.g, workers[b].graphData, workers[b].sourceFile,
                       workers[b].sourceLabel).g

\* C17: when two ingestPdfGraph batches that mention the same entity run
\* concurrently, their single-item upserts interleaved in any order, the final
\* graph has exactly one node for that entity, every property key either batch
\* wrote on it is present, and the sets of nodes and edges are those of either
\* batch running first.
C17_InterleavingInvisible ==
    (BothReturned /\ Shared # {}) =>
        /\ \A name \in Shared :
               /\ Cardinality({i \in DOMAIN gnodes : NameIs(gnodes[i], name)}) = 1
               /\ \A i \in DOMAIN gnodes :
                      NameIs(gnodes[i], name) =>
                          \A w \in 1..2 :
                              KeysWritten(workers[w].graphData, name)
                                  \subseteq DOMAIN gnodes[i].props
        /\ Shape(Graph) = Shape(OneAfterTheOther(1, 2))
        /\ Shape(Graph) = Shape(OneAfterTheOther(2, 1))


\* C21: resolving an empty or whitespace-only name returns the input string
\* unchanged: no alias of the table is matched against it.
C21_BlankNameUnchanged ==
    (rpc = "resolved" /\ Strip(rname) = "") => rout = rname


(***************************************************************************)
(* entity_resolver.EntityResolver: normalize_entity                        *)
(*                                                                         *)
(* The names handed in are ASCII.  A Hangul syllable of the source's       *)
(* tables is written as the character "^": of a syllable it only matters   *)
(* here that it is one character and equal to no character of an input.    *)
(***************************************************************************)
Syllable == "^"
Hangul(n) == Join([i \in 1..n |-> Syllable], 1, n)

\* self.korean_english_map, in the order of the dict: <<korean, english>>
korean_english_map == <<
    <<Hangul(4), "Samsung Electronics">>, <<Hangul(2), "Samsung">>,
    <<Hangul(4), "LG Electronics">>, <<Hangul(2), "LG">>,
    <<Hangul(5), "Hyundai Motor">>, <<Hangul(2), "Hyundai">>,
    <<Hangul(2), "Kia">>, <<Hangul(8), "SK Hynix">>,
    <<Hangul(3), "Naver">>, <<Hangul(3), "Kakao">>,
    <<Hangul(4), "NVIDIA">>, <<Hangul(2), "Apple">>,
    <<Hangul(7), "Microsoft">>, <<Hangul(2), "Google">>,
    <<Hangul(3), "Amazon">>, <<Hangul(3), "Tesla">>
>>

\* self.abbreviation_map
abbreviation_map ==
    [NVDA |-> "NVIDIA", MSFT |-> "Microsoft", AAPL |-> "Apple", GOOGL |-> "Google",
     AMZN |-> "Amazon", TSLA |-> "Tesla", META |-> "Meta", NFLX |-> "Netflix"]

\* EntityResolver._basic_normalization: strip, then re.sub(r'\s+', ' ', text)
_basic_normalization(text) ==
    LET t == Strip(text)
    IN  Rewrite(t, [i \in 1..Len(t) |->
                       IF Char(t, i) \notin WhiteSet THEN Char(t, i)
                       ELSE IF i > 1 /\ Char(t, i - 1) \in WhiteSet THEN "" ELSE " "])

\* EntityResolver._check_korean_english_mapping
_check_korean_english_mapping(entity_name) ==
    LET Paired(i) == korean_english_map[i][2] \o " (" \o korean_english_map[i][1] \o ")"
        korean    == {i \in DOMAIN korean_english_map :
                          Contains(korean_english_map[i][1], entity_name)}
        english   == {i \in DOMAIN korean_english_map :
                          Contains(Lower(korean_english_map[i][2]), Lower(entity_name))}
    IN  IF korean # {} THEN Paired(MinOf(korean))
        ELSE IF english # {} THEN Paired(MinOf(english))
        ELSE entity_name

\* set(s.split()): the maximal runs of characters that are not whitespace
RECURSIVE RunLen(_)
RunLen(s) == IF s = "" \/ Head(s) \in WhiteSet THEN 0 ELSE 1 + RunLen(Tail(s))

SplitWords(s) ==
    {SubSeq(s, i, i + RunLen(Suffix(s, i)) - 1) :
         i \in {j \in 1..Len(s) :
                    /\ Char(s, j) \notin WhiteSet
                    /\ (j = 1 \/ Char(s, j - 1) \in WhiteSet)}}

\* a score as the fraction <<numerator, denominator>>; Python compares the
\* doubles nearest to these fractions, which are ordered as the fractions are
ScoreLess(x, y) == x[1] * y[2] < y[1] * x[2]
ScoreMax(x, y) == IF ScoreLess(x, y) THEN y ELSE x

\* EntityResolver.fuzzy_match
fuzzy_match(entity1, entity2) ==
    LET e1      == Lower(entity1)
        e2      == Lower(entity2)
        T       == Len(e1) + Len(e2)
        ratio   == IF T = 0 THEN <<1, 1>>
                   ELSE <<2 * MatchedChars(e1, 1, Len(e1), e2, 1, Len(e2)), T>>
        bonus   == IF Contains(e1, e2) \/ Contains(e2, e1)
                   THEN ScoreMax(ratio, <<9, 10>>) ELSE ratio
        words1  == SplitWords(e1)
        words2  == SplitWords(e2)
    IN  IF words1 # {} /\ words2 # {}
        THEN ScoreMax(bonus, <<Cardinality(words1 \cap words2),
                               MaxOf({Cardinality(words1), Cardinality(words2)})>>)
        ELSE bonus

\* the loop of _find_similar_entity over the first n keys of entity_aliases:
\* <<best_match, best_score>>
RECURSIVE BestAmong(_, _, _, _)
BestAmong(entity_aliases, similarity_threshold, entity_name, n) ==
    IF n = 0 THEN <<entity_name, <<0, 1>> >>
    ELSE LET best  == BestAmong(entity_aliases, similarity_threshold, entity_name, n - 1)
             found == fuzzy_match(entity_name, entity_aliases[n][1])
         IN  IF ScoreLess(best[2], found) /\ ~ScoreLess(found, similarity_threshold)
             THEN <<entity_aliases[n][1], found>>
             ELSE best

\* EntityResolver._find_similar_entity
_find_similar_entity(entity_aliases, similarity_threshold, entity_name) ==
    BestAmong(entity_aliases, similarity_threshold, entity_name, Len(entity_aliases))[1]

\* self.entity_aliases[canonical].add(entity_name), the key made if missing
RegisterAlias(entity_aliases, canonical, entity_name) ==
    LET present == {i \in DOMAIN entity_aliases : entity_aliases[i][1] = canonical}
    IN  IF present = {}
        THEN Append(entity_aliases, <<canonical, {entity_name}>>)
        ELSE [entity_aliases EXCEPT ![MinOf(present)] = <<canonical, @[2] \cup {entity_name}>>]

\* a resolver that computes every call afresh, without normalized_cache
normalize_entity_NoCache(r, entity_name) ==
    IF entity_name = "" \/ Strip(entity_name) = ""
    THEN [self |-> r, out |-> entity_name]
    ELSE LET basic      == _basic_normalization(entity_name)
             normalized == IF Upper(basic) \in DOMAIN abbreviation_map
                           THEN abbreviation_map[Upper(basic)] ELSE basic
             mapped     == _check_korean_english_mapping(normalized)
             canonical  == IF mapped = normalized
                           THEN _find_similar_entity(r.entity_aliases,
                                                     r.similarity_threshold, normalized)
                           ELSE mapped
         IN  [self |-> [r EXCEPT
                           !.normalized_cache = (entity_name :> canonical) @@ @,
                           !.entity_aliases = RegisterAlias(@, canonical, entity_name)],
              out  |-> canonical]

\* EntityResolver.normalize_entity on the instance r: the instance after the
\* call and the value returned
normalize_entity(r, entity_name) ==
    IF entity_name = "" \/ Strip(entity_name) = ""
    THEN [self |-> r, out |-> entity_name]
    ELSE IF entity_name \in DOMAIN r.normalized_cache
    THEN [self |-> r, out |-> r.normalized_cache[entity_name]]
    ELSE LET basic      == _basic_normalization(entity_name)
             normalized == IF Upper(basic) \in DOMAIN abbreviation_map
                           THEN abbreviation_map[Upper(basic)] ELSE basic
             mapped     == _check_korean_english_mapping(normalized)
             canonical  == IF mapped = normalized
                           THEN _find_similar_entity(r.entity_aliases,
                                                     r.similarity_threshold, normalized)
                           ELSE mapped
         IN  [self |-> [r EXCEPT
                           !.normalized_cache = (entity_name :> canonical) @@ @,
                           !.entity_aliases = RegisterAlias(@, canonical, entity_name)],
              out  |-> canonical]

\* EntityResolver.__init__
NewResolver(similarity_threshold) ==
    [similarity_threshold |-> similarity_threshold, entity_aliases |-> <<>>,
     normalized_cache |-> <<>>]

(***************************************************************************)
(* Normalizer specification: the same names go, in the same order, to an   *)
(* instance with the default threshold 0.85 and to one with 0.99           *)
(***************************************************************************)
MaxFed == 4

DefaultThreshold == <<85, 100>>
StrictThreshold == <<99, 100>>

RawNames ==
    {"Acme Corp", "Big Acme Corp", "Corp Big Acme",
     "Beta", "Alpha", "Alpha Beta", "nvda", "", "  "}

NormInit ==
    /\ ScoreIdle
    /\ ResolverIdle
    /\ ValidatorIdle
    /\ IngestIdle
    /\ PathIdle
    /\ MoreIdle
    /\ resolvers = <<NewResolver(DefaultThreshold), NewResolver(StrictThreshold)>>
    /\ fed = <<>>
    /\ returned = <<>>

NormalizeEntity(entity_name) ==
    /\ Len(fed) < MaxFed
    /\ LET call == [i \in DOMAIN resolvers |-> normalize_entity(resolvers[i], entity_name)]
       IN  /\ resolvers' = [i \in DOMAIN resolvers |-> call[i].self]
           /\ returned' = Append(returned, [i \in DOMAIN resolvers |-> call[i].out])
    /\ fed' = Append(fed, entity_name)
    /\ UNCHANGED <<resolverVars, validatorVars, ingestVars, pathVars, scoreVars, moreVars>>

NormNext == \E entity_name \in RawNames : NormalizeEntity(entity_name)

NormSpec == NormInit /\ [][NormNext]_vars


(***************************************************************************)
(* Properties of normalize_entity                                          *)
(***************************************************************************)
\* the instances by their threshold
Default ==
    CHOOSE r \in DOMAIN resolvers : resolvers[r].similarity_threshold = DefaultThreshold
Strict ==
    CHOOSE r \in DOMAIN resolvers : resolvers[r].similarity_threshold = StrictThreshold

\* the calls i and j returned the same canonical name from instance r
Merged(r, i, j) == returned[i][r] = returned[j][r]

\* C22: for every sequence of raw names fed in the same order to a resolver
\* with threshold 0.85 and to one with threshold 0.99, two names that resolve
\* to the same canonical name under 0.99 resolve to the same canonical name
\* under 0.85.
C22_ThresholdMonotone ==
    \A i, j \in DOMAIN fed : Merged(Strict, i, j) => Merged(Default, i, j)


\* the keys of self.entity_aliases of an instance
CanonicalNames(r) == {r.entity_aliases[k][1] : k \in DOMAIN r.entity_aliases}

\* the raw name is registered as an alias of that canonical name
IsAliasOf(r, raw, canonical) ==
    \E k \in DOMAIN r.entity_aliases :
        r.entity_aliases[k][1] = canonical /\ raw \in r.entity_aliases[k][2]

Blank(name) == Strip(name) = ""

\* every later call with a raw name returned what the first call with it did
SameEveryTime ==
    \A r \in DOMAIN resolvers : \A i, j \in DOMAIN fed :
        fed[i] = fed[j] => returned[i][r] = returned[j][r]

\* no call removes a key of entity_aliases
NoCanonicalRetired ==
    [][\A r \in DOMAIN resolvers :
           CanonicalNames(resolvers[r]) \subseteq CanonicalNames(resolvers'[r])]_vars

\* C23 as stated: after any sequence of normalize_entity calls a raw name
\* resolves to the same canonical name on every later call, every raw name
\* handed in is a member of the alias set of the canonical name it resolved
\* to, and no canonical name is ever removed from the alias table.
C23_EveryNameRegistered ==
    /\ [](/\ SameEveryTime
          /\ \A r \in DOMAIN resolvers : \A i \in DOMAIN fed :
                 IsAliasOf(resolvers[r], fed[i], returned[i][r]))
    /\ NoCanonicalRetired

\* C23: after any sequence of normalize_entity calls a raw name resolves to
\* the same canonical name on every later call whatever was resolved in
\* between, a raw name that is neither empty nor whitespace-only is a member
\* of the alias set of the canonical name it resolved to, and no canonical
\* name is ever removed from the alias table.
C23_EveryNonBlankNameRegistered ==
    /\ [](/\ SameEveryTime
          /\ \A r \in DOMAIN resolvers : \A i \in DOMAIN fed :
                 ~Blank(fed[i]) => IsAliasOf(resolvers[r], fed[i], returned[i][r]))
    /\ NoCanonicalRetired

\* a name was resolved, then another name, then the first name again, and
\* without the cache the last call would have found another canonical name
C23_Witness ==
    /\ \E i \in DOMAIN fed :
           i + 1 < Len(fed) /\ fed[i] = fed[Len(fed)] /\ fed[i + 1] # fed[i]
    /\ ~Blank(fed[Len(fed)])
    /\ normalize_entity_NoCache(resolvers[Default], fed[Len(fed)]).out
           # returned[Len(fed)][Default]


\* the characters of the modelled names in code point order (a Hangul
\* syllable comes after every ASCII character), for comparing Python strings
AsciiChars == " '()-.0123456789" \o UpperChars \o "_" \o LowerChars \o Syllable

CharRank(c) == CHOOSE i \in 1..Len(AsciiChars) : Char(AsciiChars, i) = c

\* a < b for Python strings
RECURSIVE StrLess(_, _)
StrLess(a, b) ==
    IF b = "" THEN FALSE
    ELSE IF a = "" THEN TRUE
    ELSE IF Head(a) = Head(b) THEN StrLess(Tail(a), Tail(b))
    ELSE CharRank(Head(a)) < CharRank(Head(b))

\* what normalize_entity hands to the mapping table and to the fuzzy search
Prepared(entity_name) ==
    LET basic == _basic_normalization(entity_name)
    IN  IF Upper(basic) \in DOMAIN abbreviation_map
        THEN abbreviation_map[Upper(basic)] ELSE basic

\* the last call of instance r went through the fuzzy search
Searched(r) ==
    /\ fed # <<>>
    /\ ~Blank(fed[Len(fed)])
    /\ \A i \in 1..(Len(fed) - 1) : fed[i] # fed[Len(fed)]
    /\ _check_korean_english_mapping(Prepared(fed[Len(fed)])) = Prepared(fed[Len(fed)])

\* the canonical names that score highest against the name of the last call
TopScorers(r) ==
    LET name == Prepared(fed[Len(fed)])
        keys == CanonicalNames(resolvers[r])
    IN  {c \in keys : \A d \in keys : ~ScoreLess(fuzzy_match(name, c), fuzzy_match(name, d))}

\* two or more canonical names tie for the highest score, at or above the threshold
Tied(r) ==
    /\ Searched(r)
    /\ Cardinality(TopScorers(r)) >= 2
    /\ \A c \in TopScorers(r) :
           ~ScoreLess(fuzzy_match(Prepared(fed[Len(fed)]), c),
                      resolvers[r].similarity_threshold)

\* C26: when two or more canonical names tie for the highest fuzzy score at or
\* above the threshold, normalize_entity returns the lexicographically
\* smallest of them, whatever the order in which they were registered.
C26_TieGoesToSmallest ==
    \A r \in DOMAIN resolvers :
        Tied(r) =>
            /\ returned[Len(fed)][r] \in TopScorers(r)
            /\ \A c \in TopScorers(r) : ~StrLess(c, returned[Len(fed)][r])

(***************************************************************************)
(* Properties of build_evidence                                            *)
(***************************************************************************)
Built == bpc = "built"

\* the sentences that carry a citation marker and whose bare claim is long
\* enough, in the order of the answer text
CitedSentences ==
    SelectSeq(Sentences,
              LAMBDA s : _extract_citations(s) # <<>> /\ Len(BareClaim(s)) > MinClaimLen)

\* the provided sources whose id is among ids
ProvidedWithId(ids) == {sources[k] : k \in {k \in DOMAIN sources : sources[k].id \in ids}}

EvidenceMatchesClaims ==
    Built =>
        /\ Len(evidence) = Len(CitedSentences)
        /\ \A i \in DOMAIN evidence :
            /\ evidence[i].claim_id = i
            /\ evidence[i].claim_text = BareClaim(CitedSentences[i])
            /\ evidence[i].citation_ids = _extract_citations(CitedSentences[i])
            /\ SeqToSet(evidence[i].sources)
                 = ProvidedWithId(SeqToSet(evidence[i].citation_ids))

\* validate_response judged the claims build_evidence lists: each claim it
\* reports unsupported is the head of an entry's claim_text
SameClaimsAsValidation ==
    (Built /\ Validated) =>
        SeqToSet(vresult.unsupported_claims)
            \subseteq {Cut(evidence[i].claim_text, UnsupportedCut) : i \in DOMAIN evidence}

\* C25: build_evidence returns one entry per cited claim of the answer, as
\* validate_response extracts them, numbered 1..n in text order; the sources
\* of an entry are exactly the provided sources whose id the claim cites, an
\* id without a source contributing nothing; neither build_evidence nor
\* validate_response changes the validator's sources.
C25_EvidencePerCitedClaim ==
    /\ [](EvidenceMatchesClaims /\ SameClaimsAsValidation)
    /\ [][sources' = sources]_vars

\* an answer with a claim citing [2][7] where only source 2 was provided:
\* the entry keeps both ids and attaches one source
C25_Witness ==
    /\ Built
    /\ Validated
    /\ \E i \in DOMAIN evidence :
        /\ Len(evidence[i].citation_ids) = 2
        /\ Len(evidence[i].sources) = 1
    /\ Len(sources) = 2

(***************************************************************************)
(* Several DataIntegrator instances in one process.  __init__ gives each   *)
(* one its own EntityResolver(), but ALIASES is an attribute of the class  *)
(* and resolve and add_alias are classmethods: every instance reads and    *)
(* writes the one table.                                                   *)
(***************************************************************************)
Integrators == {1, 2}

SharedInit ==
    /\ ScoreIdle
    /\ ResolverIdle
    /\ ValidatorIdle
    /\ IngestIdle
    /\ PathIdle
    /\ NormIdle
    /\ EvidenceIdle
    /\ SanitizeIdle
    /\ PdfIdle
    /\ rwho = 0
    /\ rlog = [i \in Integrators |-> <<>>]

\* integrator.resolver.resolve(name)
IntegratorResolve(who, name) ==
    /\ rwho' = who
    /\ rname' = name
    /\ rout' = resolve(ALIASES, name)
    /\ rpc' = "resolved"
    /\ UNCHANGED <<ALIASES, nAdded, rlog>>
    /\ UNCHANGED <<validatorVars, ingestVars, pathVars, scoreVars, normVars, evidenceVars,
                   sanitizeVars, pdfVars>>

\* integrator.resolver.add_alias(canonical, aliases)
IntegratorAddAlias(who, canonical, aliases) ==
    /\ nAdded < MaxAddAlias
    /\ ALIASES' = add_alias_table(ALIASES, canonical, aliases)
    /\ rwho' = who
    /\ rlog' = [rlog EXCEPT ![who] = Append(@, <<canonical, aliases>>)]
    /\ rname' = canonical
    /\ rout' = ""
    /\ rpc' = "added"
    /\ nAdded' = nAdded + 1
    /\ UNCHANGED <<validatorVars, ingestVars, pathVars, scoreVars, normVars, evidenceVars,
                   sanitizeVars, pdfVars>>

SharedNext ==
    \/ \E who \in Integrators, name \in ResolverNames(ALIASES) : IntegratorResolve(who, name)
    \/ \E who \in Integrators, c \in AddCanonicals, l \in AddAliasLists :
           IntegratorAddAlias(who, c, l)

SharedSpec == SharedInit /\ [][SharedNext]_vars

\* the table an instance would have if only its own add_alias calls had
\* been applied to the shipped one
RECURSIVE Registered(_, _)
Registered(table, calls) ==
    IF calls = <<>> THEN table
    ELSE Registered(add_alias_table(table, Head(calls)[1], Head(calls)[2]), Tail(calls))

OwnTable(who) == Registered(InitialAliases, rlog[who])

\* C24: alias registrations made through one DataIntegrator never change
\* what resolve returns in another: a resolve returns what the shipped table
\* with the caller's own registrations gives.
C24_AliasesOwnedByInstance ==
    (rpc = "resolved" /\ rwho \in Integrators) =>
        rout = resolve(OwnTable(rwho), rname)

(***************************************************************************)
(* Order among the paths of equal hop count                                *)
(***************************************************************************)
\* the criticality or severity a relationship record carries, in tenths;
\* 0 when it carries neither
TenthsOf(value) ==
    IF value.kind = "float" /\ Len(value.text) = 3 /\ Cut(value.text, 2) = "0."
    THEN CharRank(Suffix(value.text, 3)) - CharRank("0")
    ELSE 0
RelWeight(rel) ==
    IF "criticality" \in DOMAIN rel.properties THEN TenthsOf(rel.properties["criticality"])
    ELSE IF "severity" \in DOMAIN rel.properties THEN TenthsOf(rel.properties["severity"])
    ELSE 0

RECURSIVE WeightSum(_)
WeightSum(rels) == IF rels = <<>> THEN 0 ELSE RelWeight(Head(rels)) + WeightSum(Tail(rels))

\* the node names of a returned path, and their lexicographic order
PathNames(p) == [i \in DOMAIN p.nodes |-> p.nodes[i].name.text]
RECURSIVE NamesLess(_, _)
NamesLess(a, b) ==
    IF b = <<>> THEN FALSE
    ELSE IF a = <<>> THEN TRUE
    ELSE IF Head(a) = Head(b) THEN NamesLess(Tail(a), Tail(b))
    ELSE StrLess(Head(a), Head(b))

\* C27: among returned paths of equal hop count the one with the larger sum
\* of criticality/severity comes first, and paths equal in that sum are in
\* lexicographic order of their node names; the same graph and query give
\* one ordered list.
C27_TiesBrokenByWeightThenNames ==
    FoundPaths =>
        /\ \A i, j \in DOMAIN pres.paths :
               (i < j /\ pres.paths[i].hops = pres.paths[j].hops) =>
                   \/ WeightSum(pres.paths[i].relationships)
                          > WeightSum(pres.paths[j].relationships)
                   \/ /\ WeightSum(pres.paths[i].relationships)
                             = WeightSum(pres.paths[j].relationships)
                      /\ ~NamesLess(PathNames(pres.paths[j]), PathNames(pres.paths[i]))
        /\ Cardinality(find_supply_chain_paths(Graph, pcall.start, pcall.targets,
                                               pcall.max_hops)) = 1

(***************************************************************************)
(* Labels and relationship types: batches of one entity and one            *)
(* relationship that carry an extracted type value, well formed or not     *)
(***************************************************************************)
\* what an extractor may put under 'type'; Missing: no such key
TypeValues ==
    {Str("Company"), Str("company"), Str("PERSON"), Str("Product"), Str("location"),
     Str("financial_metric"), Str("Regulation"), Str("catalyst"), Str("Risk"),
     Str("TECH"), Str("Technology"), Str("Widget"), Str(""), Str("  "),
     Str("Company) DETACH DELETE (n"), Str("depends on"), Str("Depends-On"),
     Str("supplies_2"), Str(Syllable \o Syllable), Str("Tier 1 `Supplier`"),
     Missing, None, Val("int", "42"), Val("list", "['Company']")}

TypedBatch(t) ==
    [entities      |-> <<[name |-> Str("TSMC"), type |-> t, properties |-> Dict(<<>>)]>>,
     relationships |-> <<[source |-> Str("TSMC"), target |-> Str("Nvidia"), type |-> t,
                          properties |-> Dict(<<>>)]>>]

StoredLabels == UNION {gnodes[n].labels : n \in DOMAIN gnodes}
StoredRelTypes == {gedges[e].type : e \in DOMAIN gedges}

SanitizeInit ==
    /\ ScoreIdle
    /\ ResolverIdle
    /\ ValidatorIdle
    /\ IngestIdle
    /\ PathIdle
    /\ ExtraIdle

\* sanitizeLabel and sanitizeRelType applied to what the graph already holds
Resanitize ==
    /\ nruns > 0
    /\ resanitized = <<>>
    /\ resanitized' = [labels   |-> {<<l, sanitizeLabel(l)>> : l \in StoredLabels},
                       relTypes |-> {<<r, sanitizeRelType(r)>> : r \in StoredRelTypes}]
    /\ UNCHANGED <<resolverVars, validatorVars, ingestVars, pathVars, scoreVars, normVars,
                   evidenceVars, sharedVars, pdfVars>>

SanitizeNext ==
    \/ \E t \in TypeValues : IngestPdfGraph(TypedBatch(t), "q3.pdf", "q3")
    \/ Resanitize

SanitizeSpec == SanitizeInit /\ [][SanitizeNext]_vars

\* the closed label vocabulary: the values of typeMap and the default
LabelVocabulary == {typeMap[k] : k \in DOMAIN typeMap} \cup {"Entity"}

IsRelToken(s) ==
    /\ s # ""
    /\ \A i \in 1..Len(s) : Char(s, i) \in UpperSet \cup DigitSet \cup {"_"}

\* the type value of the last batch, as Python's str() shows it
LastType == GetOr(icall.graphData.entities[1].type, Str("Entity")).text
KnownType == Upper(LastType) \in DOMAIN typeMap

\* C28: every label ingestPdfGraph writes is in the closed vocabulary, an
\* unknown or malformed type giving Entity; every relationship type it
\* writes is a non-empty token of uppercase letters, digits and underscore;
\* sanitizing a stored label or relationship type again returns it unchanged.
C28_LabelsAndTypesSanitized ==
    /\ StoredLabels \subseteq LabelVocabulary
    /\ \A r \in StoredRelTypes : IsRelToken(r)
    /\ (nruns > 0 /\ ~KnownType) =>
           \E n \in DOMAIN gnodes :
               NameIs(gnodes[n], "TSMC") /\ gnodes[n].labels = {"Entity"}
    /\ resanitized # <<>> =>
           /\ \A p \in resanitized.labels : p[2] = p[1]
           /\ \A p \in resanitized.relTypes : p[2] = p[1]

\* a type that is no label and no token was ingested: the node is an Entity,
\* the relationship type lost its unsafe characters, and both were sanitized
\* again
C28_Witness ==
    /\ nruns > 0
    /\ LastType = "Company) DETACH DELETE (n"
    /\ "COMPANYDETACHDELETEN" \in StoredRelTypes
    /\ "Entity" \in StoredLabels
    /\ resanitized # <<>>
    /\ <<"COMPANYDETACHDELETEN", "COMPANYDETACHDELETEN">> \in resanitized.relTypes

(***************************************************************************)
(* The DataIntegrator operations that ingest PDF-derived data, and the     *)
(* local model check of connection_check.py.  The entities handed over     *)
(* have the shape the extractor documents: name, type and context strings, *)
(* type or context possibly absent; names are free of quote characters.    *)
(***************************************************************************)
required_model == "qwen2.5-coder"

\* ConnectionChecker.verify_required_model: the server answered with status
\* 200 and some listed model name contains the required one
verify_required_model(server) ==
    /\ server.answers
    /\ \E model \in server.models : Contains(required_model, model)

\* check_local_model_before_processing returns, or ends the process with
\* sys.exit(1)
ProcessExits(server) == ~verify_required_model(server)

ContextCut == 500

\* DataIntegrator.merge_entity: properties of type int, float (bool is an
\* int) and str are SET; with none of them, updated_at is
merge_entity(g, name, entity_type, properties) ==
    LET canonical_name == resolver_resolve(ALIASES, name)
        m        == MergeNode(g.nodes, entity_type, canonical_name)
        settable == {k \in DOMAIN properties :
                        properties[k].kind \in {"int", "float", "bool", "str"}}
        written  == IF settable = {} THEN ("updated_at" :> DateTime(g.clock + 1))
                    ELSE [k \in settable |-> properties[k]]
    IN  [g EXCEPT
            !.nodes = [i \in DOMAIN m.nodes |->
                          IF i \in m.rows
                          THEN [m.nodes[i] EXCEPT !.props = SetAll(@, written)]
                          ELSE m.nodes[i]],
            !.clock = @ + 1]

\* the loop of ingest_pdf_entities
RECURSIVE ingest_pdf_entities(_, _)
ingest_pdf_entities(g, entities) ==
    IF entities = <<>> THEN g
    ELSE LET entity      == Head(entities)
             entity_type == GetOr(entity.type, Str("Entity")).text
             properties  == ("source" :> Str("PDF"))
                                @@ ("context" :>
                                        Str(Cut(GetOr(entity.context, Str("")).text,
                                                ContextCut)))
         IN  ingest_pdf_entities(merge_entity(g, entity.name.text, entity_type, properties),
                                 Tail(entities))

\* the Company nodes the lookup of resolve_with_baseline matches
BaselineHits(g, search_term) ==
    {i \in DOMAIN g.nodes :
        LET props == g.nodes[i].props
        IN  /\ "Company" \in g.nodes[i].labels
            /\ "name" \in DOMAIN props
            /\ \/ "ticker" \in DOMAIN props /\ props["ticker"] = Str(search_term)
               \/ props["name"] = Str(search_term)
               \/ Contains(Lower(search_term), Lower(props["name"].text))}

\* whether resolve_with_baseline sends its lookup to the store
LooksUp(entity_name) == resolver_resolve(ALIASES, entity_name) = Strip(entity_name)

\* EntityResolver.resolve_with_baseline: the names it may return (LIMIT 1
\* keeps whichever matching row the store gives first)
resolve_with_baseline(g, entity_name) ==
    LET hits == BaselineHits(g, Strip(entity_name))
    IN  IF LooksUp(entity_name) /\ hits # {}
        THEN {g.nodes[i].props["name"].text : i \in hits}
        ELSE {resolver_resolve(ALIASES, entity_name)}

\* industry_keywords of _link_to_baseline_structure, in dict order
industry_keywords == <<
    <<"Semiconductor Equipment", {"euv", "lithography", "equipment", "asml"}>>,
    <<"Semiconductor Foundry", {"foundry", "manufacturing", "fab", "tsmc"}>>,
    <<"Memory Chips", {"memory", "dram", "nand", "hbm"}>>,
    <<"GPU & AI Chips", {"gpu", "graphics", "ai chip", "accelerator"}>>,
    <<"Cloud Service Provider", {"cloud", "data center", "aws", "azure"}>>
>>

\* DataIntegrator._link_to_baseline_structure
_link_to_baseline_structure(g, company_name, context) ==
    LET matching == {n \in DOMAIN industry_keywords :
                        \E keyword \in industry_keywords[n][2] :
                            Contains(keyword, Lower(context))}
    IN  IF matching = {} THEN g
        ELSE LET industry == industry_keywords[MinOf(matching)][1]
                 rows    == MatchNodes(g.nodes, "Company", company_name)
                                \X MatchNodes(g.nodes, "Industry", industry)
                 Has(p)  == \E e \in DOMAIN g.edges :
                                /\ g.edges[e].src = p[1]
                                /\ g.edges[e].dst = p[2]
                                /\ g.edges[e].type = "OPERATES_IN"
                 fresh   == PairsInOrder({p \in rows : ~Has(p)})
                 edges   == g.edges \o [n \in DOMAIN fresh |->
                                           [src |-> fresh[n][1], dst |-> fresh[n][2],
                                            type |-> "OPERATES_IN", props |-> <<>>]]
                 written == ("source" :> Str("inferred"))
                                @@ ("confidence" :> Val("float", "0.7"))
             IN  [g EXCEPT
                    !.edges = [e \in DOMAIN edges |->
                                  IF /\ <<edges[e].src, edges[e].dst>> \in rows
                                     /\ edges[e].type = "OPERATES_IN"
                                  THEN [edges[e] EXCEPT !.props = SetAll(@, written)]
                                  ELSE edges[e]],
                    !.clock = @ + 1]

\* one pass of the loop of merge_with_baseline for a named entity, with the
\* canonical name the resolver gave: the runs it may lead to
MergeUserEntity(run, entity, source_label, canonical_name) ==
    LET entity_type == GetOr(entity.type, Str("Entity")).text
        context     == Cut(GetOr(entity.context, Str("")).text, ContextCut)
        g0          == [run.g EXCEPT
                           !.clock = @ + (IF LooksUp(entity.name.text) THEN 2 ELSE 1)]
        baseline    == {i \in MatchNodes(g0.nodes, "", canonical_name) :
                           /\ "source" \in DOMAIN g0.nodes[i].props
                           /\ g0.nodes[i].props["source"] = Str("baseline")}
    IN  IF baseline # {}
        THEN {LET node_label == IF g0.nodes[i].labels = {} THEN "None"
                                ELSE FirstLabel(g0.nodes[i])
                  rows == MatchNodes(g0.nodes, node_label, canonical_name)
                  Updated(props) ==
                      SetAll(props,
                             ("user_context" :>
                                  Str((IF "user_context" \in DOMAIN props
                                       THEN props["user_context"].text ELSE "")
                                          \o "\n" \o context))
                                 @@ ("user_source" :> Str(source_label))
                                 @@ ("last_user_update" :> DateTime(g0.clock + 1)))
              IN  [g |-> [g0 EXCEPT
                             !.nodes = [n \in DOMAIN g0.nodes |->
                                           IF n \in rows
                                           THEN [g0.nodes[n] EXCEPT !.props = Updated(@)]
                                           ELSE g0.nodes[n]],
                             !.clock = @ + 1],
                   merge_stats |-> [run.merge_stats EXCEPT
                                       !.matched_to_baseline = @ + 1,
                                       !.properties_updated = @ + 1]] :
                 i \in baseline}
        ELSE LET m       == MergeNode(g0.nodes, entity_type, canonical_name)
                 written == ("description" :> Str(context))
                                @@ ("source" :> Str("user"))
                                @@ ("source_label" :> Str(source_label))
                                @@ ("created_at" :> DateTime(g0.clock + 1))
                 created == [g0 EXCEPT
                                !.nodes = [n \in DOMAIN m.nodes |->
                                              IF n \in m.rows
                                              THEN [m.nodes[n] EXCEPT
                                                       !.props = SetAll(@, written)]
                                              ELSE m.nodes[n]],
                                !.clock = @ + 1]
             IN  {[g |-> IF entity_type = "Company"
                         THEN _link_to_baseline_structure(created, canonical_name, context)
                         ELSE created,
                   merge_stats |-> [run.merge_stats EXCEPT !.new_entities = @ + 1]]}

RECURSIVE MergeUserEntities(_, _, _)
MergeUserEntities(runs, user_entities, source_label) ==
    IF user_entities = <<>> THEN runs
    ELSE LET entity == Head(user_entities)
             entity_name == GetOr(entity.name, Str("")).text
             Step(run) ==
                 IF entity_name = "" THEN {run}
                 ELSE UNION {MergeUserEntity(run, entity, source_label, canonical_name) :
                                canonical_name \in resolve_with_baseline(run.g, entity_name)}
         IN  MergeUserEntities(UNION {Step(run) : run \in runs}, Tail(user_entities),
                               source_label)

\* DataIntegrator.merge_with_baseline: the graphs and statistics it may give
merge_with_baseline(g, user_entities, source_label) ==
    MergeUserEntities({[g |-> g,
                        merge_stats |-> [matched_to_baseline |-> 0, new_entities |-> 0,
                                         relationships_added |-> 0,
                                         properties_updated |-> 0]]},
                      user_entities, source_label)

(***************************************************************************)
(* PDF ingestion specification: a store that is empty or holds a baseline  *)
(* graph, a local model server in some condition, and up to MaxRuns        *)
(* operations of one process                                               *)
(***************************************************************************)
OllamaStates ==
    {[answers |-> FALSE, models |-> {}],
     [answers |-> TRUE, models |-> {"llama3:8b"}],
     [answers |-> TRUE, models |-> {"llama3:8b", "qwen2.5-coder:7b"}]}

BaselineNodes == <<
    [labels |-> {"Company"},
     props  |-> ("name" :> Str("TSMC")) @@ ("ticker" :> Str("TSM"))
                    @@ ("source" :> Str("baseline"))],
    [labels |-> {"Industry"},
     props  |-> ("name" :> Str("Semiconductor Foundry")) @@ ("source" :> Str("baseline"))],
    [labels |-> {"Company"},
     props  |-> ("name" :> Str("Foundry One Holdings")) @@ ("ticker" :> Str("FOH"))
                    @@ ("source" :> Str("baseline"))]
>>

MaxPdfEntities == 2

PdfEntityPool == <<
    [name |-> Str("NVDA"), type |-> Str("Company"), context |-> Str("GPU maker")],
    [name |-> Str("TSM"), type |-> Str("Company"), context |-> Missing],
    [name |-> Str("Foundry One"), type |-> Str("Company"), context |-> Str("packaging")],
    [name |-> Str("Acme Fab"), type |-> Str("Company"), context |-> Str("A new fab")],
    [name |-> Str(""), type |-> Missing, context |-> Str("")]
>>

\* the lists of up to MaxPdfEntities entities of the pool, in any order
RECURSIVE EntityLists(_)
EntityLists(n) ==
    IF n = 0 THEN {<<>>}
    ELSE EntityLists(n - 1)
             \cup {Append(l, PdfEntityPool[i]) : l \in EntityLists(n - 1),
                                                  i \in DOMAIN PdfEntityPool}

PdfInit ==
    /\ ScoreIdle
    /\ ResolverIdle
    /\ ValidatorIdle
    /\ PathIdle
    /\ NormIdle
    /\ EvidenceIdle
    /\ SharedIdle
    /\ SanitizeIdle
    /\ gnodes \in {<<>>, BaselineNodes}
    /\ gedges = <<>>
    /\ gclock = 0
    /\ stats = [entities_merged |-> 0, relationships_created |-> 0]
    /\ nruns = 0
    /\ icall = <<>>
    /\ iprev = [nodes |-> <<>>, edges |-> <<>>]
    /\ irepeat = FALSE
    /\ ires = [raised |-> FALSE, entitiesMerged |-> 0, relationshipsCreated |-> 0]
    /\ ibase = <<>>
    /\ workers = <<>>
    /\ ollama \in OllamaStates
    /\ pdfcall = <<>>

\* the process is still running
Running == IF pdfcall = <<>> THEN TRUE ELSE ~pdfcall.exited

PdfCall(op, checked, exited, result) ==
    [op |-> op, checked |-> checked, exited |-> exited, result |-> result,
     before |-> [nodes |-> gnodes, edges |-> gedges]]

\* the bookkeeping of an operation other than ingestPdfGraph
Counted ==
    /\ nruns < MaxRuns
    /\ Running
    /\ nruns' = nruns + 1
    /\ iprev' = [nodes |-> gnodes, edges |-> gedges]
    /\ irepeat' = FALSE
    /\ UNCHANGED <<icall, ires, ibase, workers, ollama>>
    /\ UNCHANGED <<resolverVars, validatorVars, pathVars, scoreVars, normVars,
                   evidenceVars, sharedVars, sanitizeVars>>

\* integrator.ingest_pdf_entities(entities)
IngestPdfEntities(entities) ==
    /\ Counted
    /\ IF ProcessExits(ollama)
       THEN /\ pdfcall' = PdfCall("ingest_pdf_entities", TRUE, TRUE, <<>>)
            /\ UNCHANGED <<gnodes, gedges, gclock, stats>>
       ELSE LET g == ingest_pdf_entities(Graph, entities)
            IN  /\ gnodes' = g.nodes
                /\ gedges' = g.edges
                /\ gclock' = g.clock
                /\ stats' = [stats EXCEPT !.entities_merged = @ + Len(entities)]
                /\ pdfcall' = PdfCall("ingest_pdf_entities", TRUE, FALSE,
                                      [pdf_chunks |-> Len(entities)])

\* integrator.ingestPdfGraph(graphData, sourceFile, sourceLabel)
PdfIngestPdfGraph(graphData, sourceFile, sourceLabel) ==
    /\ Running
    /\ IngestPdfGraphCall(graphData, sourceFile, sourceLabel)
    /\ pdfcall' = PdfCall("ingestPdfGraph", FALSE, FALSE, <<>>)
    /\ UNCHANGED ollama
    /\ UNCHANGED <<resolverVars, validatorVars, pathVars, scoreVars, normVars,
                   evidenceVars, sharedVars, sanitizeVars>>

\* integrator.merge_with_baseline(user_entities, source_label)
MergeWithBaseline(user_entities, source_label) ==
    /\ Counted
    /\ \E run \in merge_with_baseline(Graph, user_entities, source_label) :
           /\ gnodes' = run.g.nodes
           /\ gedges' = run.g.edges
           /\ gclock' = run.g.clock
           /\ pdfcall' = PdfCall("merge_with_baseline", FALSE, FALSE, run.merge_stats)
    /\ UNCHANGED stats

\* Path(pdf_path).stem of a path that ends in a three-letter suffix
Stem(pdf_path) == Cut(pdf_path, Len(pdf_path) - 4)

\* integrator.ingest_user_pdf_with_baseline(pdf_path, extractor, source_label);
\* extracted: the entities the extractor found in the chunks of the
\* document, "" for source_label: None
IngestUserPdfWithBaseline(pdf_path, extracted, source_label) ==
    /\ Counted
    /\ UNCHANGED stats
    /\ IF ProcessExits(ollama)
       THEN /\ pdfcall' = PdfCall("ingest_user_pdf_with_baseline", TRUE, TRUE, <<>>)
            /\ UNCHANGED <<gnodes, gedges, gclock>>
       ELSE LET label == IF source_label = "" THEN Stem(pdf_path) ELSE source_label
            IN  \E run \in merge_with_baseline(Graph, extracted, label) :
                    /\ gnodes' = run.g.nodes
                    /\ gedges' = run.g.edges
                    /\ gclock' = run.g.clock
                    /\ pdfcall' = PdfCall("ingest_user_pdf_with_baseline", TRUE, FALSE,
                                          [pdf_file |-> pdf_path, source_label |-> label,
                                           entities_extracted |-> Len(extracted),
                                           merge_stats |-> run.merge_stats])

PdfNext ==
    \/ \E entities \in EntityLists(MaxPdfEntities) : IngestPdfEntities(entities)
    \/ \E t \in {Str("Company"), Missing} : PdfIngestPdfGraph(TypedBatch(t), "q3.pdf", "q3")
    \/ \E user_entities \in EntityLists(MaxPdfEntities) :
           MergeWithBaseline(user_entities, "user_pdf")
    \/ \E extracted \in EntityLists(MaxPdfEntities), source_label \in {"", "user_pdf"} :
           IngestUserPdfWithBaseline("q3.pdf", extracted, source_label)

PdfSpec == PdfInit /\ [][PdfNext]_vars

\* the last operation changed the graph
GraphWritten ==
    gnodes # pdfcall.before.nodes \/ gedges # pdfcall.before.edges

\* C29: every operation that ingests PDF-derived data verifies that the local
\* model is available before its first graph write, and writes nothing when
\* the check fails.
C29_LocalModelCheckedBeforeWrites ==
    pdfcall # <<>> =>
        /\ GraphWritten => pdfcall.checked
        /\ ~verify_required_model(ollama) => ~GraphWritten

\* C30: after any sequence of add_alias calls resolve is idempotent: the
\* name a resolve returned (as merge_entity returns it) resolves to itself
\* when it is resolved again (as create_relationship does).
C30_ResolveIdempotent ==
    rpc = "resolved" => resolve(ALIASES, rout) = rout
=============================================================================
